---- MODULE Spec2Model ----
(***************************************************************************)
(* Model of the Beck Online fetch engine (BeckBrowser), the BeckProvider   *)
(* credential gate and the server's shutdown handlers.                     *)
(*                                                                         *)
(* Execution model: Node.js run-to-completion.  A caller is either parked  *)
(* at an `await` of a real asynchronous operation (a pc listed in AwaitPcs)*)
(* or it is running synchronous code; while one caller runs synchronous    *)
(* code nobody else takes a step (Turn).  An action at an await pc models  *)
(* the completion of the awaited operation together with the synchronous   *)
(* code that follows it up to the next await or call boundary.             *)
(***************************************************************************)
EXTENDS Integers, Sequences, FiniteSets, TLC

\* ---------------------------------------------------------------- bounds
NumCallers == 2
MaxBrowsers == 2
MaxTime == 2
\* calls made one after the other / calls that may overlap / calls before shutdown
MaxCalls == 3
MaxOverlap == 2
MaxBefore == 2

Callers == 1..NumCallers
BrowserIds == 1..MaxBrowsers
Triggers == {"SIGINT", "SIGTERM", "stdin"}

\* ------------------------------------------------------------- constants
AUTH_COOKIE == "beck-online.auth"
NoCookie == [name |-> "none", expires |-> 0]
\* expires: -1 session-only, 0 unset, otherwise a time stamp
ExpiryValues == {-1, 0} \cup (1..MaxTime)
AuthCookies == [name : {AUTH_COOKIE}, expires : ExpiryValues]

\* process.env values: unset, empty string, non-empty string
EnvValues == {"unset", "", "x"}

\* page locations the browser can be at
Urls == {"blank", "origin", "idpLogin", "idpHop"}

\* String.prototype.includes on the page URL
IncludesLoginForm(u) == u = "idpLogin"
IncludesOrigin(u) == u = "origin"

\* JavaScript truthiness of an environment value
Truthy(v) == v \notin {"unset", ""}

\* cookie file on disk
FileStates ==
    {[kind |-> "absent", auth |-> NoCookie], [kind |-> "corrupt", auth |-> NoCookie],
     [kind |-> "cookies", auth |-> NoCookie]}
    \cup [kind : {"cookies"}, auth : AuthCookies]

\* the seven Beck tools
beckToolDefinitions ==
    << "beck:search", "beck:get_document", "beck:get_legislation",
       "beck:resolve_citation", "beck:get_context", "beck:get_suggestions",
       "beck:get_referenced_documents" >>

\* tool names a client sends (a representative of each first engine call,
\* and a name that is no Beck tool)
ToolNames == {"beck:search", "beck:resolve_citation", "beck:unknown"}

\* direct calls of the engine's public methods
ApiCalls == {"fetchPage", "login", "close"}

Entries == ToolNames \cup ApiCalls

AwaitPcs ==
    {"in_launch", "in_newPage", "in_ua", "ls_setCookie",
     "lg_verifyGoto", "lg_verifyCookies", "lg_gotoLogin", "lg_submit",
     "lg_waitNav", "lg_waitNav2", "lg_cookies", "lg_directCookies",
     "fp_goto", "fp_waitSel", "fp_content", "cl_close"}

RestPcs == {"idle"}

NoRes == [st |-> "none", err |-> "", own |-> TRUE]

\* text of the result of a tool call made without credentials
DISABLED_TEXT ==
    "Beck Online tools are disabled. Set BECK_USERNAME and BECK_PASSWORD environment variables."

\* ------------------------------------------------- pages, URLs, arguments
\* bounds of the page contents a fetch can return
MaxWords == 2
MaxItems == 2
MaxName == 3
MaxRegs == 3
MaxBody == 6

\* words of a page's text (a denial phrase is one or two words here)
Words ==
    {"Dokument", "dokument", "kann nicht angezeigt werden",
     "KANN NICHT ANGEZEIGT WERDEN",
     "Nicht über die notwendigen Rechte verfügen",
     "keine berechtigung zum aufruf", "Keine Berechtigung zum Aufruf", "Text"}

\* String.prototype.toLowerCase, word by word
LowerWord(w) ==
    CASE w = "Dokument" -> "dokument"
      [] w = "Nicht über die notwendigen Rechte verfügen" ->
            "nicht über die notwendigen rechte verfügen"
      [] w = "KANN NICHT ANGEZEIGT WERDEN" -> "kann nicht angezeigt werden"
      [] w = "Keine Berechtigung zum Aufruf" -> "keine berechtigung zum aufruf"
      [] w = "Text" -> "text"
      [] OTHER -> w

toLowerCase(t) == [i \in 1..Len(t) |-> LowerWord(t[i])]

\* String.prototype.includes: ph occurs in t as a contiguous piece
Includes(t, ph) ==
    \E i \in 0..(Len(t) - Len(ph)) : \A j \in 1..Len(ph) : t[i + j] = ph[j]

SeqsUpTo(S, n) == UNION {[1..k -> S] : k \in 0..n}

Texts == SeqsUpTo(Words, MaxWords)

\* the phrases BeckConverter.isAccessDenied looks for
DenialPhrases ==
    {<< "nicht über die notwendigen rechte verfügen" >>,
     << "dokument", "kann nicht angezeigt werden" >>,
     << "keine berechtigung zum aufruf" >>}

\* document identifiers and what URL.searchParams.get('vpath') can return
Vpaths == {"V1", "V2"}
VpathParams == {"null", ""} \cup Vpaths

\* a final URL: does it include '/Dokument?', and its vpath query parameter
FinalUrls == [doc : BOOLEAN, vpath : VpathParams]
NoUrl == [doc |-> FALSE, vpath |-> "null"]

\* JSON.parse of a body text: not JSON, the value null, or an object whose
\* 'values' is absent, no array, or an array of entries with their labels
Labels == {"Foo", "Bar", "undefined"}
JsonBodies ==
    {[kind |-> k, labels |-> << >>] : k \in {"notJson", "null", "noValues", "notArray"}}
    \cup [kind : {"values"}, labels : SeqsUpTo(Labels, MaxItems)]

\* an entry of the hit list: the title link's text and its vpath parameter
Hits == [title : {"", "A"}, vpath : {"null", "V1"}]
HitLists == SeqsUpTo(Hits, MaxItems)

\* the content container of a document page and what it converts to
Contents == {"absent", "blank", "B1"}
Titles == {"", "T1"}

BlankPage ==
    [text |-> << >>, title |-> "", content |-> "absent",
     json |-> [kind |-> "notJson", labels |-> << >>], hits |-> << >>]

\* what page.content() can hold
Pages ==
    {[BlankPage EXCEPT !.text = t, !.title = ti, !.content = c] :
        t \in Texts, ti \in Titles, c \in Contents}
    \cup {[BlankPage EXCEPT !.json = j] : j \in JsonBodies}
    \cup {[BlankPage EXCEPT !.hits = h] : h \in HitLists}

\* tool arguments: vpath (missing, an identifier, a full URL) and format
ArgVpaths == {"undefined", "V1", "http"}
ArgFormats == {"undefined", "markdown", "html"}
ToolArgs == [vpath : ArgVpaths, format : ArgFormats]

\* names a client may call handleBeckToolCall with
BeckToolNames ==
    {beckToolDefinitions[i] : i \in 1..Len(beckToolDefinitions)} \cup {"beck:unknown"}

NoReq == [tool |-> "none", args |-> [vpath |-> "undefined", format |-> "undefined"]]
\* a ToolResult: isError and the content text (its kind and the values in it)
NoToolRes == [st |-> "none", isError |-> FALSE, kind |-> "none", vpath |-> "null",
              url |-> NoUrl, page |-> BlankPage, items |-> << >>, hits |-> << >>]

\* the orchestrator's last call: name, arguments, provider calls made, result
NoRouted == [name |-> << >>, args |-> "none", invoked |-> {}, st |-> "none",
             isError |-> FALSE, text |-> [lead |-> "", toolName |-> << >>]]

VARIABLES
    \* BeckBrowser fields
    browser, page, authCookie, isAuthenticated,
    \* the automation browsers (world outside the process)
    launched, live, pageUrl, pageNavBy, jar,
    \* persisted cookie file, environment, clock
    file, username, password, now,
    \* callers
    pc, entry, op, stack, tgt, loc, res, calls,
    \* shutdown handlers
    sigpc, sigtgt, exited,
    \* history variables
    verified,
    \* a tool call inside handleBeckToolCall: the request, the handler's
    \* position and locals, the engine calls it made, its result
    treq, tpc, tvpath, turl, thtml, tlog, tres,
    \* the orchestrator: registered providers, the last routed call
    providers, routed,
    \* the names the provider objects were registered under, in order (object
    \* i is the i-th one registered); shutdownAllProviders' position in the
    \* map, and how often each object's shutdown() was called
    regs, sdpc, sdpos, shut,
    \* the converter: the markdown turndown produced, the body returned
    turned, body

engineVars == << browser, page, authCookie, isAuthenticated >>
worldVars == << launched, live, pageUrl, pageNavBy, jar >>
envVars == << file, username, password, now >>
callVars == << pc, entry, op, stack, tgt, loc, res, calls >>
sigVars == << sigpc, sigtgt, exited >>
histVars == << verified >>
toolVars == << treq, tpc, tvpath, turl, thtml, tlog, tres >>
routeVars == << providers, routed, regs, sdpc, sdpos, shut >>
convVars == << turned, body >>

vars == << engineVars, worldVars, envVars, callVars, sigVars, histVars,
           toolVars, routeVars, convVars >>

\* ------------------------------------------------------------- helpers

\* auth.expires && auth.expires !== -1 && auth.expires < Date.now() / 1000
Expired(c, t) == c.expires # 0 /\ c.expires # -1 /\ c.expires < t

\* cookies.find(c => c.name === 'beck-online.auth') on what page.cookies()
\* returns: the browser only hands out cookies that have not expired
JarAuth(b) == IF jar[b].name = AUTH_COOKIE /\ ~Expired(jar[b], now) THEN jar[b] ELSE NoCookie

\* nobody else is in the middle of synchronous code
Turn(p) == /\ ~exited
           /\ \A q \in Callers \ {p} : pc[q] \in AwaitPcs \cup RestPcs

\* a gate that is satisfied by either credential
isConfigured_either == Truthy(username) \/ Truthy(password)

\* BeckProvider.isConfigured / isBeckConfigured
isConfigured == Truthy(username) /\ Truthy(password)

\* BeckProvider.getTools
getTools == IF isConfigured THEN beckToolDefinitions ELSE << >>

Init ==
    /\ browser = 0 /\ page = 0 /\ authCookie = NoCookie /\ isAuthenticated = FALSE
    /\ launched = 0 /\ live = {}
    /\ pageUrl = [b \in BrowserIds |-> "blank"]
    /\ pageNavBy = [b \in BrowserIds |-> 0]
    /\ jar = [b \in BrowserIds |-> NoCookie]
    /\ file \in FileStates
    /\ username \in EnvValues /\ password \in EnvValues
    /\ now = 1
    /\ pc = [p \in Callers |-> "idle"]
    /\ entry = [p \in Callers |-> "none"]
    /\ op = [p \in Callers |-> "none"]
    /\ stack = [p \in Callers |-> << >>]
    /\ tgt = [p \in Callers |-> 0]
    /\ loc = [p \in Callers |-> NoCookie]
    /\ res = [p \in Callers |-> NoRes]
    /\ calls = 0
    /\ sigpc = [s \in Triggers |-> "idle"]
    /\ sigtgt = [s \in Triggers |-> 0]
    /\ exited = FALSE
    /\ verified = FALSE
    /\ treq = NoReq /\ tpc = "idle" /\ tvpath = "undefined" /\ turl = NoUrl
    /\ thtml = BlankPage /\ tlog = << >> /\ tres = NoToolRes
    /\ providers = {} /\ routed = NoRouted
    /\ turned = << >> /\ body = << >>
    /\ regs = << >> /\ sdpc = "idle" /\ sdpos = 0 /\ shut = [i \in 1..MaxRegs |-> 0]

\* ------------------------------------------------- control-flow helpers

Step(p, newpc, newstack, newtgt, newloc, newres) ==
    /\ pc' = [pc EXCEPT ![p] = newpc]
    /\ stack' = [stack EXCEPT ![p] = newstack]
    /\ tgt' = [tgt EXCEPT ![p] = newtgt]
    /\ loc' = [loc EXCEPT ![p] = newloc]
    /\ res' = [res EXCEPT ![p] = newres]
    /\ UNCHANGED << entry, op, calls >>

\* continue synchronously at l
Jump(p, l) == Step(p, l, stack[p], 0, loc[p], res[p])

\* an asynchronous operation was issued on handle t; park at l
Await(p, l, t) == Step(p, l, stack[p], t, loc[p], res[p])

\* call a method, continue at r when it returns
Push(p, l, r) == Step(p, l, << r >> \o stack[p], 0, loc[p], res[p])

\* own: every page read of the call saw the page as the call's own navigation left it
OkRes(o) == [st |-> "ok", err |-> "", own |-> o]

\* handleBeckToolCall's catch turns a thrown error into an error envelope;
\* a direct call of the engine sees the rejected promise
ErrRes(p, e) ==
    [st |-> IF entry[p] \in ToolNames THEN "error" ELSE "rejected",
     err |-> e, own |-> TRUE]

\* the outermost call completes with result r
Complete(p, r) == Step(p, "done", << >>, 0, NoCookie, r)

\* an exception propagates to the outermost caller
Fail(p, e) == Complete(p, ErrRes(p, e))

\* a method returns normally: login(), init() and close() return void
Return(p) ==
    IF stack[p] = << >>
    THEN Complete(p, OkRes(TRUE))
    ELSE Step(p, Head(stack[p]), Tail(stack[p]), 0, NoCookie, res[p])

\* ------------------------------------------------------------- callers

\* a request arrives / a client calls a public method of the engine
Call(p, e, budget) ==
    /\ Turn(p)
    /\ pc[p] = "idle"
    /\ calls < budget
    /\ calls' = calls + 1
    /\ entry' = [entry EXCEPT ![p] = e]
    /\ op' = [op EXCEPT ![p] =
                CASE e \in {"beck:search", "fetchPage"} -> "fetchPage"
                  [] e = "beck:resolve_citation" -> "resolveUrl"
                  [] e = "login" -> "login"
                  [] e = "close" -> "close"
                  [] OTHER -> "none"]
    /\ pc' = [pc EXCEPT ![p] =
                CASE e \in ToolNames -> "pv_handle"
                  [] e = "fetchPage" -> "fp_start"
                  [] e = "login" -> "lg_start"
                  [] OTHER -> "cl_start"]
    /\ UNCHANGED << stack, tgt, loc, res >>
    /\ UNCHANGED << engineVars, worldVars, envVars, sigVars, histVars >>

\* the caller takes the result of its call
Finish(p) ==
    /\ Turn(p)
    /\ pc[p] = "done"
    /\ pc' = [pc EXCEPT ![p] = "idle"]
    /\ entry' = [entry EXCEPT ![p] = "none"]
    /\ op' = [op EXCEPT ![p] = "none"]
    /\ res' = [res EXCEPT ![p] = NoRes]
    /\ UNCHANGED << stack, tgt, loc, calls >>
    /\ UNCHANGED << engineVars, worldVars, envVars, sigVars, histVars >>

\* BeckProvider.handleToolCall followed by handleBeckToolCall's switch
handleToolCall(p) ==
    /\ Turn(p)
    /\ pc[p] = "pv_handle"
    /\ IF ~isConfigured
       THEN Complete(p, ErrRes(p, DISABLED_TEXT))
       ELSE IF op[p] = "none"
       THEN Complete(p, ErrRes(p, "Unknown Beck tool:"))
       ELSE Jump(p, "fp_start")
    /\ UNCHANGED << engineVars, worldVars, envVars, sigVars, histVars >>

\* --------------------------------------------------- BeckBrowser.init

\* init(): if (this.browser) return; puppeteer.launch(...)
init_start(p) ==
    /\ Turn(p)
    /\ pc[p] = "in_start"
    /\ IF browser # 0 THEN Return(p) ELSE Await(p, "in_launch", 0)
    /\ UNCHANGED << engineVars, worldVars, envVars, sigVars, histVars >>

\* this.browser = await puppeteer.launch(); this.browser.newPage()
init_launched(p) ==
    /\ Turn(p)
    /\ pc[p] = "in_launch"
    /\ \/ /\ launched < MaxBrowsers
          /\ LET b == launched + 1 IN
             /\ launched' = b
             /\ live' = live \cup {b}
             /\ browser' = b
             /\ Await(p, "in_newPage", b)
          /\ verified' = verified
          /\ UNCHANGED << page, authCookie, isAuthenticated, pageUrl, pageNavBy, jar >>
       \/ /\ Fail(p, "launch failed")
          /\ UNCHANGED << engineVars, worldVars, verified >>
    /\ UNCHANGED << envVars, sigVars >>

\* this.page = await this.browser.newPage(); this.page.setUserAgent(...)
init_newPage(p) ==
    /\ Turn(p)
    /\ pc[p] = "in_newPage"
    /\ IF tgt[p] \notin live
       THEN /\ Fail(p, "target closed")
            /\ UNCHANGED page
       ELSE /\ page' = tgt[p]
            /\ Await(p, "in_ua", tgt[p])
    /\ UNCHANGED << browser, authCookie, isAuthenticated, worldVars, envVars,
                    sigVars, histVars >>

\* a load that restores whatever auth cookie the file holds, expired or not
LoadableAuth_ignoreExpiry ==
    IF file.kind = "cookies" /\ file.auth.name = AUTH_COOKIE
    THEN file.auth ELSE NoCookie

\* loadSession() up to page.setCookie: the file is read and the auth cookie
\* checked; any read or parse error is caught and yields false
LoadableAuth ==
    IF file.kind = "cookies" /\ file.auth.name = AUTH_COOKIE /\ ~Expired(file.auth, now)
    THEN file.auth ELSE NoCookie

\* await this.page.setUserAgent(...); await this.loadSession()
init_userAgent(p) ==
    /\ Turn(p)
    /\ pc[p] = "in_ua"
    /\ IF tgt[p] \notin live
       THEN Fail(p, "target closed")
       ELSE IF LoadableAuth.name = AUTH_COOKIE /\ page # 0
       THEN Step(p, "ls_setCookie", stack[p], page, LoadableAuth, res[p])
       ELSE Return(p)
    /\ UNCHANGED << engineVars, worldVars, envVars, sigVars, histVars >>

\* await this.page.setCookie(...cookies); authCookie = auth; isAuthenticated = true
loadSession_setCookie(p) ==
    /\ Turn(p)
    /\ pc[p] = "ls_setCookie"
    /\ IF tgt[p] \notin live
       THEN UNCHANGED << authCookie, isAuthenticated, jar >>
       ELSE /\ jar' = [jar EXCEPT ![tgt[p]] = loc[p]]
            /\ authCookie' = loc[p]
            /\ isAuthenticated' = TRUE
    /\ Return(p)
    /\ UNCHANGED << browser, page, launched, live, pageUrl, pageNavBy,
                    envVars, sigVars, histVars >>

\* -------------------------------------------------- BeckBrowser.login

\* saveSession(cookies): writes the file; an I/O error is logged and swallowed
saveSession(c) == file' \in {[kind |-> "cookies", auth |-> c], file}

\* what the origin may do to the auth cookie while serving a page
JarAfterVisit(b) == {jar[b], NoCookie}

\* the cookie the origin sets at the end of a successful sign-in
FreshCookies == {[name |-> AUTH_COOKIE, expires |-> e] : e \in {-1, now}}

\* the page operation issued on handle t completes on page t of a live browser
Landed(p, t, u, j) ==
    /\ pageUrl' = [pageUrl EXCEPT ![t] = u]
    /\ pageNavBy' = [pageNavBy EXCEPT ![t] = p]
    /\ jar' = [jar EXCEPT ![t] = j]

\* login(): if (!this.page) await this.init()
login_start(p) ==
    /\ Turn(p)
    /\ pc[p] = "lg_start"
    /\ IF page = 0 THEN Push(p, "in_start", "lg_afterInit") ELSE Jump(p, "lg_afterInit")
    /\ UNCHANGED << engineVars, worldVars, envVars, sigVars, histVars >>

\* a login that trusts the flag and returns at once
login_afterInit_trustFlag(p) ==
    /\ Turn(p)
    /\ pc[p] = "lg_afterInit"
    /\ IF page = 0 THEN Fail(p, "Browser not initialized")
       ELSE IF isAuthenticated THEN Return(p)
       ELSE Jump(p, "lg_creds")
    /\ UNCHANGED << engineVars, worldVars, envVars, sigVars, histVars >>

\* if (!this.page) throw; if (this.isAuthenticated) goto Home
login_afterInit(p) ==
    /\ Turn(p)
    /\ pc[p] = "lg_afterInit"
    /\ IF page = 0 THEN Fail(p, "Browser not initialized")
       ELSE IF isAuthenticated THEN Await(p, "lg_verifyGoto", page)
       ELSE Jump(p, "lg_creds")
    /\ UNCHANGED << engineVars, worldVars, envVars, sigVars, histVars >>

\* await page.goto(Home) inside try; then page.cookies() is issued
login_verifyGoto(p) ==
    /\ Turn(p)
    /\ pc[p] = "lg_verifyGoto"
    /\ \/ \* navigation failed or timed out: catch, isAuthenticated = false
          /\ isAuthenticated' = FALSE
          /\ verified' = FALSE
          /\ Jump(p, "lg_creds")
          /\ UNCHANGED << pageUrl, pageNavBy, jar >>
       \/ /\ tgt[p] \in live
          /\ \E u \in {"origin", "idpLogin"}, j \in JarAfterVisit(tgt[p]) :
                Landed(p, tgt[p], u, j)
          /\ IF page = 0
             THEN /\ isAuthenticated' = FALSE
                  /\ verified' = FALSE
                  /\ Jump(p, "lg_creds")
             ELSE /\ Await(p, "lg_verifyCookies", page)
                  /\ UNCHANGED << isAuthenticated, verified >>
    /\ UNCHANGED << browser, page, authCookie, launched, live,
                    envVars, sigVars >>

\* cookies = await page.cookies(); cookie found: return, else re-authenticate
login_verifyCookies(p) ==
    /\ Turn(p)
    /\ pc[p] = "lg_verifyCookies"
    /\ IF tgt[p] \in live /\ JarAuth(tgt[p]).name = AUTH_COOKIE
       THEN /\ verified' = TRUE
            /\ Return(p)
            /\ UNCHANGED isAuthenticated
       ELSE /\ isAuthenticated' = FALSE
            /\ verified' = FALSE
            /\ Jump(p, "lg_creds")
    /\ UNCHANGED << browser, page, authCookie, worldVars, envVars, sigVars >>

\* a login that checks the account identity only
login_creds_userOnly(p) ==
    /\ Turn(p)
    /\ pc[p] = "lg_creds"
    /\ IF ~Truthy(username)
       THEN Fail(p, "BECK_USERNAME and BECK_PASSWORD environment variables must be set.")
       ELSE IF page = 0 THEN Fail(p, "TypeError")
       ELSE Await(p, "lg_gotoLogin", page)
    /\ UNCHANGED << engineVars, worldVars, envVars, sigVars, verified >>

\* credentials are read and checked; page.goto(IdentityProviderLogin) is issued
login_creds(p) ==
    /\ Turn(p)
    /\ pc[p] = "lg_creds"
    /\ IF ~(Truthy(username) /\ Truthy(password))
       THEN Fail(p, "BECK_USERNAME and BECK_PASSWORD environment variables must be set.")
       ELSE IF page = 0 THEN Fail(p, "TypeError")
       ELSE Await(p, "lg_gotoLogin", page)
    /\ UNCHANGED << engineVars, worldVars, envVars, sigVars, verified >>

\* a login that saves the cookies of a direct hit without marking the session
login_gotoLogin_noMark(p) ==
    /\ Turn(p)
    /\ pc[p] = "lg_gotoLogin"
    /\ \/ /\ Fail(p, "navigation failed")
          /\ UNCHANGED << isAuthenticated, verified, pageUrl, pageNavBy, jar >>
       \/ /\ tgt[p] \in live
          /\ \E u \in {"idpLogin", "origin", "idpHop"} :
                Landed(p, tgt[p], u, jar[tgt[p]])
          /\ IF page = 0
             THEN /\ Fail(p, "TypeError")
                  /\ UNCHANGED << isAuthenticated, verified >>
             ELSE IF IncludesLoginForm(pageUrl'[page])
             THEN /\ Await(p, "lg_submit", page)
                  /\ UNCHANGED << isAuthenticated, verified >>
             ELSE IF IncludesOrigin(pageUrl'[page])
             THEN /\ Await(p, "lg_directCookies", page)
                  /\ UNCHANGED << isAuthenticated, verified >>
             ELSE /\ Fail(p, "Unexpected login start page")
                  /\ UNCHANGED << isAuthenticated, verified >>
    /\ UNCHANGED << browser, page, authCookie, launched, live,
                    envVars, sigVars >>

\* await page.goto(IdentityProviderLogin); branch on page.url()
login_gotoLogin(p) ==
    /\ Turn(p)
    /\ pc[p] = "lg_gotoLogin"
    /\ \/ /\ Fail(p, "navigation failed")
          /\ UNCHANGED << isAuthenticated, verified, pageUrl, pageNavBy, jar >>
       \/ /\ tgt[p] \in live
          /\ \E u \in {"idpLogin", "origin", "idpHop"} :
                Landed(p, tgt[p], u, jar[tgt[p]])
          /\ IF page = 0
             THEN /\ Fail(p, "TypeError")
                  /\ UNCHANGED << isAuthenticated, verified >>
             ELSE IF IncludesLoginForm(pageUrl'[page])
             THEN /\ Await(p, "lg_submit", page)
                  /\ UNCHANGED << isAuthenticated, verified >>
             ELSE IF IncludesOrigin(pageUrl'[page])
             THEN /\ isAuthenticated' = TRUE
                  /\ verified' = TRUE
                  /\ Await(p, "lg_directCookies", page)
             ELSE /\ Fail(p, "Unexpected login start page")
                  /\ UNCHANGED << isAuthenticated, verified >>
    /\ UNCHANGED << browser, page, authCookie, launched, live,
                    envVars, sigVars >>

\* page.type(username), page.type(password), click submit; waitForNavigation issued
login_submit(p) ==
    /\ Turn(p)
    /\ pc[p] = "lg_submit"
    /\ IF tgt[p] \notin live THEN Fail(p, "target closed")
       ELSE IF ~IncludesLoginForm(pageUrl[tgt[p]]) THEN Fail(p, "login form not found")
       ELSE IF page = 0 THEN Fail(p, "TypeError")
       ELSE Await(p, "lg_waitNav", page)
    /\ UNCHANGED << engineVars, worldVars, envVars, sigVars, verified >>

\* what the page is at after sign-in redirects
AfterSubmit(b) ==
    {[url |-> "origin", jar |-> c] : c \in FreshCookies \cup {jar[b]}}
    \cup {[url |-> u, jar |-> jar[b]] : u \in {"idpLogin", "idpHop"}}

\* the code after the navigation waits: is the page back on the origin?
login_afterWaits(p) ==
    IF page = 0 THEN Fail(p, "TypeError")
    ELSE IF IncludesOrigin(pageUrl'[page]) THEN Await(p, "lg_cookies", page)
    ELSE Fail(p, "Login failed: Stuck at")

\* await page.waitForNavigation() (default timeout, not caught)
login_waitNav(p) ==
    /\ Turn(p)
    /\ pc[p] = "lg_waitNav"
    /\ \/ /\ Fail(p, "navigation timeout")
          /\ UNCHANGED << pageUrl, pageNavBy, jar >>
       \/ /\ tgt[p] \in live
          /\ \E a \in AfterSubmit(tgt[p]) : Landed(p, tgt[p], a.url, a.jar)
          /\ IF page = 0 THEN Fail(p, "TypeError")
             ELSE IF ~IncludesOrigin(pageUrl'[page]) THEN Await(p, "lg_waitNav2", page)
             ELSE Await(p, "lg_cookies", page)
    /\ UNCHANGED << engineVars, launched, live, envVars, sigVars, histVars >>

\* try { await page.waitForNavigation({timeout: 10000}) } catch {}; then the
\* origin test; off the origin the body text is read and the error thrown
login_waitNav2(p) ==
    /\ Turn(p)
    /\ pc[p] = "lg_waitNav2"
    /\ \/ /\ UNCHANGED << pageUrl, pageNavBy, jar >>
          /\ login_afterWaits(p)
       \/ /\ tgt[p] \in live
          /\ \E a \in AfterSubmit(tgt[p]) : Landed(p, tgt[p], a.url, a.jar)
          /\ login_afterWaits(p)
    /\ UNCHANGED << engineVars, launched, live, envVars, sigVars, histVars >>

\* a login whose saveSession lets the write error out instead of catching it
login_cookies_saveThrows(p) ==
    /\ Turn(p)
    /\ pc[p] = "lg_cookies"
    /\ IF tgt[p] \notin live
       THEN /\ Fail(p, "target closed")
            /\ UNCHANGED << authCookie, isAuthenticated, verified, file >>
       ELSE /\ authCookie' = JarAuth(tgt[p])
            /\ IF JarAuth(tgt[p]).name = AUTH_COOKIE
               THEN /\ isAuthenticated' = TRUE
                    /\ verified' = TRUE
                    /\ \/ /\ file' = [kind |-> "cookies", auth |-> JarAuth(tgt[p])]
                          /\ Return(p)
                       \/ /\ UNCHANGED file
                          /\ Fail(p, "EACCES: permission denied")
               ELSE /\ Fail(p, "Login failed: Auth cookie not found after redirect.")
                    /\ UNCHANGED << isAuthenticated, verified, file >>
    /\ UNCHANGED << browser, page, worldVars, username, password, now, sigVars >>

\* cookies = await page.cookies(); authCookie = find(...) || null
login_cookies(p) ==
    /\ Turn(p)
    /\ pc[p] = "lg_cookies"
    /\ IF tgt[p] \notin live
       THEN /\ Fail(p, "target closed")
            /\ UNCHANGED << authCookie, isAuthenticated, verified, file >>
       ELSE /\ authCookie' = JarAuth(tgt[p])
            /\ IF JarAuth(tgt[p]).name = AUTH_COOKIE
               THEN /\ isAuthenticated' = TRUE
                    /\ verified' = TRUE
                    /\ saveSession(JarAuth(tgt[p]))
                    /\ Return(p)
               ELSE /\ Fail(p, "Login failed: Auth cookie not found after redirect.")
                    /\ UNCHANGED << isAuthenticated, verified, file >>
    /\ UNCHANGED << browser, page, worldVars, username, password, now, sigVars >>

\* direct hit: cookies = await page.cookies(); await saveSession(cookies)
login_directCookies(p) ==
    /\ Turn(p)
    /\ pc[p] = "lg_directCookies"
    /\ IF tgt[p] \notin live
       THEN /\ Fail(p, "target closed")
            /\ UNCHANGED file
       ELSE /\ saveSession(JarAuth(tgt[p]))
            /\ Return(p)
    /\ UNCHANGED << engineVars, worldVars, username, password, now, sigVars, histVars >>

\* ------------------------------------- BeckBrowser.fetchPage / resolveUrl

\* if (!this.page) await this.init()
fetchPage_start(p) ==
    /\ Turn(p)
    /\ pc[p] = "fp_start"
    /\ IF page = 0 THEN Push(p, "in_start", "fp_auth") ELSE Jump(p, "fp_auth")
    /\ UNCHANGED << engineVars, worldVars, envVars, sigVars, histVars >>

\* if (!this.isAuthenticated) await this.login()
fetchPage_auth(p) ==
    /\ Turn(p)
    /\ pc[p] = "fp_auth"
    /\ IF ~isAuthenticated THEN Push(p, "lg_start", "fp_nav") ELSE Jump(p, "fp_nav")
    /\ UNCHANGED << engineVars, worldVars, envVars, sigVars, histVars >>

\* if (!this.page) throw; page.goto(url) is issued
fetchPage_nav(p) ==
    /\ Turn(p)
    /\ pc[p] = "fp_nav"
    /\ IF page = 0 THEN Fail(p, "Browser not ready") ELSE Await(p, "fp_goto", page)
    /\ UNCHANGED << engineVars, worldVars, envVars, sigVars, verified >>

\* await page.goto(url); fetchPage goes on to waitForSelector (a null page
\* throws inside the try and again, uncaught, at page.content());
\* resolveUrl returns page.url()
fetchPage_goto(p) ==
    /\ Turn(p)
    /\ pc[p] = "fp_goto"
    /\ \/ /\ Fail(p, "navigation failed")
          /\ UNCHANGED << pageUrl, pageNavBy, jar >>
       \/ /\ tgt[p] \in live
          /\ \E u \in {"origin", "idpLogin"}, j \in JarAfterVisit(tgt[p]) :
                Landed(p, tgt[p], u, j)
          /\ IF page = 0 THEN Fail(p, "TypeError")
             ELSE IF op[p] = "resolveUrl" THEN Complete(p, OkRes(pageNavBy'[page] = p))
             ELSE Await(p, "fp_waitSel", page)
    /\ UNCHANGED << engineVars, launched, live, envVars, sigVars, histVars >>

\* try { await page.waitForSelector(..., {timeout: 2000}) } catch {};
\* page.content() is issued
fetchPage_waitSel(p) ==
    /\ Turn(p)
    /\ pc[p] = "fp_waitSel"
    /\ IF page = 0 THEN Fail(p, "TypeError") ELSE Await(p, "fp_content", page)
    /\ UNCHANGED << engineVars, worldVars, envVars, sigVars, histVars >>

\* getCurrentUrl(): this.page ? this.page.url() : ''
getCurrentUrl == IF page # 0 THEN pageNavBy[page] ELSE 0

\* a fetchPage that saves the page's cookies before it returns the content
fetchPage_content_saves(p) ==
    /\ Turn(p)
    /\ pc[p] = "fp_content"
    /\ IF tgt[p] \notin live
       THEN /\ Fail(p, "target closed")
            /\ UNCHANGED file
       ELSE /\ saveSession(JarAuth(tgt[p]))
            /\ Complete(p, OkRes(/\ pageNavBy[tgt[p]] = p
                                 /\ entry[p] = "beck:search" => getCurrentUrl = p))
    /\ UNCHANGED << engineVars, worldVars, username, password, now, sigVars, histVars >>

\* return await page.content(); handleSearch then reads getCurrentUrl()
fetchPage_content(p) ==
    /\ Turn(p)
    /\ pc[p] = "fp_content"
    /\ IF tgt[p] \notin live THEN Fail(p, "target closed")
       ELSE Complete(p, OkRes(/\ pageNavBy[tgt[p]] = p
                              /\ entry[p] = "beck:search" => getCurrentUrl = p))
    /\ UNCHANGED << engineVars, worldVars, envVars, sigVars, histVars >>

\* -------------------------------------------------- BeckBrowser.close

\* if (this.browser) browser.close() is issued
close_start(p) ==
    /\ Turn(p)
    /\ pc[p] = "cl_start"
    /\ IF browser # 0 THEN Await(p, "cl_close", browser) ELSE Return(p)
    /\ UNCHANGED << engineVars, worldVars, envVars, sigVars, histVars >>

\* a close that terminates the browser and keeps the page handle
close_closed_keepsPage(p) ==
    /\ Turn(p)
    /\ pc[p] = "cl_close"
    /\ live' = live \ {tgt[p]}
    /\ browser' = 0
    /\ page' = page
    /\ isAuthenticated' = FALSE
    /\ verified' = FALSE
    /\ Return(p)
    /\ UNCHANGED << authCookie, launched, pageUrl, pageNavBy, jar, envVars, sigVars >>

\* await this.browser.close(); browser = null; page = null; isAuthenticated = false
close_closed(p) ==
    /\ Turn(p)
    /\ pc[p] = "cl_close"
    /\ live' = live \ {tgt[p]}
    /\ browser' = 0
    /\ page' = 0
    /\ isAuthenticated' = FALSE
    /\ verified' = FALSE
    /\ Return(p)
    /\ UNCHANGED << authCookie, launched, pageUrl, pageNavBy, jar, envVars, sigVars >>

\* ------------------------------------------- shutdown (index.ts cleanup)

\* no caller is in the middle of synchronous code
Quiet == ~exited /\ \A q \in Callers : pc[q] \in AwaitPcs \cup RestPcs

\* SIGINT / SIGTERM / stdin close: cleanup() calls browser.close()
cleanup(s) ==
    /\ Quiet
    /\ sigpc[s] = "idle"
    /\ IF browser # 0
       THEN /\ sigpc' = [sigpc EXCEPT ![s] = "closing"]
            /\ sigtgt' = [sigtgt EXCEPT ![s] = browser]
            /\ UNCHANGED exited
       ELSE /\ sigpc' = [sigpc EXCEPT ![s] = "done"]
            /\ exited' = TRUE
            /\ UNCHANGED sigtgt
    /\ UNCHANGED << engineVars, worldVars, envVars, callVars, histVars >>

\* browser.close() issued by cleanup completes; process.exit(0)
cleanup_closed(s) ==
    /\ Quiet
    /\ sigpc[s] = "closing"
    /\ live' = live \ {sigtgt[s]}
    /\ browser' = 0
    /\ page' = 0
    /\ isAuthenticated' = FALSE
    /\ verified' = FALSE
    /\ sigpc' = [sigpc EXCEPT ![s] = "done"]
    /\ exited' = TRUE
    /\ UNCHANGED << authCookie, launched, pageUrl, pageNavBy, jar, envVars, callVars,
                    sigtgt >>

\* Date.now() advances
Tick ==
    /\ Quiet
    /\ now < MaxTime
    /\ now' = now + 1
    /\ UNCHANGED << engineVars, worldVars, file, username, password, callVars,
                    sigVars, histVars >>

\* the tool handlers and the orchestrator are not part of these runs
LayersIdle == UNCHANGED << toolVars, routeVars, convVars >>

\* one step of a call in flight
EngineStep(p) ==
    \/ Finish(p)
    \/ handleToolCall(p)
    \/ init_start(p)
    \/ init_launched(p)
    \/ init_newPage(p)
    \/ init_userAgent(p)
    \/ loadSession_setCookie(p)
    \/ login_start(p)
    \/ login_afterInit(p)
    \/ login_verifyGoto(p)
    \/ login_verifyCookies(p)
    \/ login_creds(p)
    \/ login_gotoLogin(p)
    \/ login_submit(p)
    \/ login_waitNav(p)
    \/ login_waitNav2(p)
    \/ login_cookies(p)
    \/ login_directCookies(p)
    \/ fetchPage_start(p)
    \/ fetchPage_auth(p)
    \/ fetchPage_nav(p)
    \/ fetchPage_goto(p)
    \/ fetchPage_waitSel(p)
    \/ fetchPage_content(p)
    \/ close_start(p)
    \/ close_closed(p)

AllIdle == \A q \in Callers : pc[q] = "idle"

\* Calls made one after the other by one client, in every environment, while
\* time passes.
Next ==
    \/ \E e \in Entries : AllIdle /\ Call(1, e, MaxCalls) /\ LayersIdle
    \/ \E p \in Callers : EngineStep(p) /\ LayersIdle
    \/ Tick /\ LayersIdle

Spec == Init /\ [][Next]_vars

\* Calls that overlap, with credentials configured.
InitConc ==
    /\ Init
    /\ username = "x" /\ password = "x"
    /\ file \in {[kind |-> "absent", auth |-> NoCookie],
                 [kind |-> "cookies", auth |-> [name |-> AUTH_COOKIE, expires |-> -1]]}

ConcEntries == {"beck:search", "beck:resolve_citation", "login", "close"}

NextConc ==
    \/ \E p \in Callers, e \in ConcEntries : Call(p, e, MaxOverlap) /\ LayersIdle
    \/ \E p \in Callers : EngineStep(p) /\ LayersIdle

SpecConc == InitConc /\ [][NextConc]_vars

\* Shutdown triggers arriving while the server runs.
ShutdownEntries == {"beck:search", "login", "close"}

NextShutdown ==
    \/ \E e \in ShutdownEntries : AllIdle /\ Call(1, e, MaxBefore) /\ LayersIdle
    \/ \E p \in Callers : EngineStep(p) /\ LayersIdle
    \/ \E s \in Triggers : cleanup(s) /\ LayersIdle
    \/ \E s \in Triggers : cleanup_closed(s) /\ LayersIdle

SpecShutdown == InitConc /\ [][NextShutdown]_vars

\* ------------------------------------------- BeckConverter (pure part)

\* a check that knows two of the three phrases
isAccessDenied_twoPhrases(h) ==
    \/ Includes(toLowerCase(h.text), << "nicht über die notwendigen rechte verfügen" >>)
    \/ Includes(toLowerCase(h.text), << "keine berechtigung zum aufruf" >>)

\* a check that compares the page as it is spelled
isAccessDenied_caseSensitive(h) ==
    \E ph \in DenialPhrases : Includes(h.text, ph)

\* BeckConverter.isAccessDenied
isAccessDenied(h) ==
    \E ph \in DenialPhrases : Includes(toLowerCase(h.text), ph)

\* BeckConverter.htmlToMarkdown: title and the converted, trimmed body of
\* the content container ('' when there is no container or it holds nothing)
htmlToMarkdown(h) ==
    [title |-> h.title,
     body |-> IF h.content \in {"absent", "blank"} THEN "" ELSE h.content]

\* ------------------------- BeckConverter.htmlToMarkdown (post-processing)

\* pieces of the markdown text: a newline, the '[](null)' artifact, a
\* bracketed number, any other text
NL == "\n"
ARTIFACT == "[](null)"
Pieces == {NL, ARTIFACT, "[1]", "a"}
Markdowns == SeqsUpTo(Pieces, MaxBody)

\* 1. body.replace(/(^|\n)\[(\d+)\]/g, '$1**[Rn. $2]**')
formatRandnummern(b) ==
    [i \in 1..Len(b) |->
        IF b[i] = "[1]" /\ (i = 1 \/ b[i - 1] = NL) THEN "**[Rn. 1]**" ELSE b[i]]

\* the pieces of b at the positions in K, from position i on, in order
RECURSIVE KeepFrom(_, _, _)
KeepFrom(b, i, K) ==
    IF i > Len(b) THEN << >>
    ELSE IF i \in K THEN << b[i] >> \o KeepFrom(b, i + 1, K)
    ELSE KeepFrom(b, i + 1, K)

\* 2. body.replace(/\n{3,}/g, '\n\n'): of a run of newlines two are left
removeExcessiveNewlines(b) ==
    KeepFrom(b, 1, {i \in 1..Len(b) :
                       ~(b[i] = NL /\ i >= 3 /\ b[i - 1] = NL /\ b[i - 2] = NL)})

\* 3. body.replace(/\[\]\(null\)/g, '')
removeArtifacts(b) ==
    KeepFrom(b, 1, {i \in 1..Len(b) : b[i] # ARTIFACT})

\* String.prototype.trim
trim(b) ==
    KeepFrom(b, 1, {i \in 1..Len(b) :
                       (\E j \in 1..i : b[j] # NL) /\ (\E j \in i..Len(b) : b[j] # NL)})

\* the body htmlToMarkdown returns for what turndown produced
postProcess(b) ==
    trim(removeArtifacts(removeExcessiveNewlines(formatRandnummern(b))))

ConvFrame ==
    UNCHANGED << engineVars, worldVars, envVars, callVars, sigVars, histVars, toolVars,
                 routeVars >>

\* htmlToMarkdown(html) on a page whose content turndown renders as b
htmlToMarkdown_body(b) ==
    /\ turned = << >>
    /\ turned' = b
    /\ body' = postProcess(b)
    /\ ConvFrame

\* the caller has the result; the next page can be converted
bodyReturned ==
    /\ turned # << >>
    /\ turned' = << >> /\ body' = << >>
    /\ ConvFrame

NextConvert ==
    \/ \E b \in Markdowns : htmlToMarkdown_body(b)
    \/ bodyReturned

SpecConvert == InitConc /\ [][NextConvert]_vars

\* ------------------------------------------- tool handlers (pure part)

\* a returned ToolResult
Envelope(e, k) == [NoToolRes EXCEPT !.st = "returned", !.isError = e, !.kind = k]

\* a handler that lets the exception escape
handleBeckToolCall_catch_rethrow(m) ==
    [NoToolRes EXCEPT !.st = "thrown", !.items = << m >>]

\* handleBeckToolCall's catch: { text: `Error: ${message}`, isError: true }
handleBeckToolCall_catch(m) == [Envelope(TRUE, "Error: ") EXCEPT !.items = << m >>]

\* a get_document that converts first and looks for the denial afterwards
DocumentResult_convertFirst(h, v, f) ==
    IF f # "html" /\ htmlToMarkdown(h).body = ""
    THEN [Envelope(TRUE, "ERROR: Document content empty or access denied") EXCEPT !.vpath = v]
    ELSE IF isAccessDenied(h)
    THEN [Envelope(TRUE, "ERROR: Access Denied for vpath") EXCEPT !.vpath = v]
    ELSE IF f = "html"
    THEN [Envelope(FALSE, "html") EXCEPT !.page = h]
    ELSE [Envelope(FALSE, "markdown") EXCEPT
            !.items = << htmlToMarkdown(h).title, htmlToMarkdown(h).body >>]

\* handleGetDocument after the print page was fetched
DocumentResult(h, v, f) ==
    IF isAccessDenied(h)
    THEN [Envelope(TRUE, "ERROR: Access Denied for vpath") EXCEPT !.vpath = v]
    ELSE IF f = "html"
    THEN [Envelope(FALSE, "html") EXCEPT !.page = h]
    ELSE IF htmlToMarkdown(h).body = ""
    THEN [Envelope(TRUE, "ERROR: Document content empty or access denied") EXCEPT !.vpath = v]
    ELSE [Envelope(FALSE, "markdown") EXCEPT
            !.items = << htmlToMarkdown(h).title, htmlToMarkdown(h).body >>]

\* a get_legislation that returns the page of a denied document
LegislationResult_noDenialCheck(h) ==
    IF htmlToMarkdown(h).body = ""
    THEN Envelope(TRUE, "ERROR: Empty content for")
    ELSE [Envelope(FALSE, "markdown") EXCEPT
            !.items = << htmlToMarkdown(h).title, htmlToMarkdown(h).body >>]

\* handleGetLegislation after the print page was fetched
LegislationResult(h) ==
    IF isAccessDenied(h)
    THEN Envelope(TRUE, "ERROR: Access Denied for")
    ELSE IF htmlToMarkdown(h).body = ""
    THEN Envelope(TRUE, "ERROR: Empty content for")
    ELSE [Envelope(FALSE, "markdown") EXCEPT
            !.items = << htmlToMarkdown(h).title, htmlToMarkdown(h).body >>]

\* a vpath parameter that is present and non-empty (JavaScript truthiness)
HasVpath(u) == u.vpath \notin {"null", ""}

DirectHit(u) ==
    [title |-> "Direct Hit (Redirected)", type |-> "Unknown", vpath |-> u.vpath, link |-> u]

\* the hits of the page's list that have a title and a vpath
RECURSIVE ParsedHits(_)
ParsedHits(hs) ==
    IF hs = << >> THEN << >>
    ELSE LET x == Head(hs) IN
         IF x.title # "" /\ x.vpath \notin {"null", ""}
         THEN << [title |-> x.title, type |-> "Unknown", vpath |-> x.vpath,
                  link |-> [doc |-> TRUE, vpath |-> x.vpath]] >> \o ParsedHits(Tail(hs))
         ELSE ParsedHits(Tail(hs))

\* a search that always reads the hit list
SearchResult_alwaysParse(h, u) ==
    [Envelope(FALSE, "hits") EXCEPT !.hits = ParsedHits(h.hits)]

\* handleSearch after the fetch: direct hit, or the parsed hit list
SearchResult(h, u) ==
    IF u.doc /\ HasVpath(u)
    THEN [Envelope(FALSE, "hits") EXCEPT !.hits = << DirectHit(u) >>]
    ELSE [Envelope(FALSE, "hits") EXCEPT !.hits = ParsedHits(h.hits)]

\* handleResolveCitation after resolveUrl
CitationResult(u) ==
    IF u.doc
    THEN [Envelope(FALSE, "citation") EXCEPT !.vpath = u.vpath, !.url = u]
    ELSE Envelope(TRUE, "Could not resolve citation")

\* JSON.stringify of v.label: a missing label becomes null
LabelText(l) == IF l = "undefined" THEN "null" ELSE l

\* a get_suggestions that parses outside the try: the exception reaches
\* handleBeckToolCall's catch
SuggestionsResult_parseOutsideTry(h) ==
    CASE h.json.kind = "values" ->
            [Envelope(FALSE, "suggestions") EXCEPT
                !.items = [i \in 1..Len(h.json.labels) |-> LabelText(h.json.labels[i])]]
      [] h.json.kind = "noValues" -> Envelope(FALSE, "suggestions")
      [] OTHER -> handleBeckToolCall_catch("SyntaxError")

\* handleGetSuggestions after the fetch: JSON.parse and the map inside try,
\* any exception (no JSON, null, 'values' without map()) gives the error
SuggestionsResult(h) ==
    CASE h.json.kind = "values" ->
            [Envelope(FALSE, "suggestions") EXCEPT
                !.items = [i \in 1..Len(h.json.labels) |-> LabelText(h.json.labels[i])]]
      [] h.json.kind = "noValues" -> Envelope(FALSE, "suggestions")
      [] OTHER -> Envelope(TRUE, "Failed to parse suggestions JSON.")

\* handleGetContext / handleGetReferencedDocuments: what they read off the page
ContextResult(h) == [Envelope(FALSE, "context") EXCEPT !.page = h]
RefsResult(h) == [Envelope(FALSE, "refs") EXCEPT !.page = h]

\* ------------------------------------------- tool handlers (steps)

\* errors browser.fetchPage / browser.resolveUrl reject with
EngineErrors == {"navigation failed", "Login failed: Stuck at"}

\* a URL a handler builds: the endpoint and the vpath put into it
ReqUrl(k, v) == [kind |-> k, vpath |-> v]
\* an engine call a handler awaits; ok once it has returned a value
EngineCall(m, k, v) == [m |-> m, url |-> ReqUrl(k, v), ok |-> FALSE, err |-> ""]
Returned(log) == [log EXCEPT ![Len(log)].ok = TRUE]

ToolFrame ==
    UNCHANGED << engineVars, worldVars, envVars, callVars, sigVars, histVars, routeVars,
                 convVars >>

\* the handler returns r, or its exception was caught
ToolDone(r) == tpc' = "done" /\ tres' = r

\* the awaited engine call rejects: handleBeckToolCall's catch answers
EngineThrows ==
    /\ \E e \in EngineErrors :
          /\ ToolDone(handleBeckToolCall_catch(e))
          /\ tlog' = [tlog EXCEPT ![Len(tlog)].err = e]
    /\ UNCHANGED << treq, tvpath, turl, thtml >>

\* handleBeckToolCall(toolName, args): the switch and the handler's code up
\* to its first engine call
handleBeckToolCall(name, args) ==
    /\ tpc = "idle"
    /\ treq' = [tool |-> name, args |-> args]
    /\ tvpath' = args.vpath
    /\ UNCHANGED << turl, thtml >>
    /\ CASE name = "beck:search" ->
              /\ tlog' = << EngineCall("fetchPage", "Search", "null") >>
              /\ tpc' = "se_fetch" /\ UNCHANGED tres
         [] name = "beck:get_document" ->
              IF args.vpath = "undefined"
              THEN /\ ToolDone(handleBeckToolCall_catch("TypeError"))
                   /\ UNCHANGED tlog
              ELSE IF args.vpath = "http"
              THEN /\ tlog' = << EngineCall("resolveUrl", "given", args.vpath) >>
                   /\ tpc' = "gd_resolve" /\ UNCHANGED tres
              ELSE /\ tlog' = << EngineCall("fetchPage", "Print", args.vpath) >>
                   /\ tpc' = "gd_fetch" /\ UNCHANGED tres
         [] name = "beck:get_legislation" ->
              /\ tlog' = << EngineCall("resolveUrl", "Bcid", "null") >>
              /\ tpc' = "gl_resolve" /\ UNCHANGED tres
         [] name = "beck:resolve_citation" ->
              /\ tlog' = << EngineCall("resolveUrl", "Search", "null") >>
              /\ tpc' = "rc_resolve" /\ UNCHANGED tres
         [] name = "beck:get_context" ->
              /\ tlog' = << EngineCall("fetchPage", "Dokument", args.vpath) >>
              /\ tpc' = "gc_fetch" /\ UNCHANGED tres
         [] name = "beck:get_suggestions" ->
              /\ tlog' = << EngineCall("fetchPage", "Suggest", "null") >>
              /\ tpc' = "gs_fetch" /\ UNCHANGED tres
         [] name = "beck:get_referenced_documents" ->
              /\ tlog' = << EngineCall("fetchPage", "Print", args.vpath) >>
              /\ tpc' = "gr_fetch" /\ UNCHANGED tres
         [] OTHER ->
              /\ ToolDone(Envelope(TRUE, "Unknown Beck tool: "))
              /\ UNCHANGED tlog
    /\ ToolFrame

\* handleSearch: html = await fetchPage(url); currentUrl = getCurrentUrl()
handleSearch ==
    /\ tpc = "se_fetch"
    /\ \/ EngineThrows
       \/ \E h \in Pages, u \in FinalUrls :
             /\ thtml' = h /\ turl' = u
             /\ tlog' = Returned(tlog)
             /\ ToolDone(SearchResult(h, u))
             /\ UNCHANGED << treq, tvpath >>
    /\ ToolFrame

\* a get_document that resolves the URL and then prints the URL it was given
handleGetDocument_resolved_keepsUrl ==
    /\ tpc = "gd_resolve"
    /\ \/ EngineThrows
       \/ \E u \in FinalUrls :
             /\ turl' = u
             /\ tvpath' = tvpath
             /\ tlog' = Append(Returned(tlog), EngineCall("fetchPage", "Print", tvpath'))
             /\ tpc' = "gd_fetch"
             /\ UNCHANGED << treq, thtml, tres >>
    /\ ToolFrame

\* handleGetDocument: resolvedUrl = await resolveUrl(vpath);
\* vpath = searchParams.get('vpath') || vpath; the print page is requested
handleGetDocument_resolved ==
    /\ tpc = "gd_resolve"
    /\ \/ EngineThrows
       \/ \E u \in FinalUrls :
             /\ turl' = u
             /\ tvpath' = IF HasVpath(u) THEN u.vpath ELSE tvpath
             /\ tlog' = Append(Returned(tlog), EngineCall("fetchPage", "Print", tvpath'))
             /\ tpc' = "gd_fetch"
             /\ UNCHANGED << treq, thtml, tres >>
    /\ ToolFrame

\* handleGetDocument: html = await fetchPage(printUrl); denial, format, body
handleGetDocument_fetched ==
    /\ tpc = "gd_fetch"
    /\ \/ EngineThrows
       \/ \E h \in Pages :
             /\ thtml' = h
             /\ tlog' = Returned(tlog)
             /\ ToolDone(DocumentResult(h, tvpath, treq.args.format))
             /\ UNCHANGED << treq, tvpath, turl >>
    /\ ToolFrame

\* handleGetLegislation: finalUrl = await resolveUrl(bcidUrl); vpath check
handleGetLegislation_resolved ==
    /\ tpc = "gl_resolve"
    /\ \/ EngineThrows
       \/ \E u \in FinalUrls :
             /\ turl' = u
             /\ IF ~HasVpath(u)
                THEN /\ ToolDone(Envelope(TRUE, "Could not resolve legislation."))
                     /\ tlog' = Returned(tlog)
                     /\ UNCHANGED tvpath
                ELSE /\ tvpath' = u.vpath
                     /\ tlog' = Append(Returned(tlog), EngineCall("fetchPage", "Print", u.vpath))
                     /\ tpc' = "gl_fetch"
                     /\ UNCHANGED tres
             /\ UNCHANGED << treq, thtml >>
    /\ ToolFrame

\* handleGetLegislation: html = await fetchPage(printUrl); denial, body
handleGetLegislation_fetched ==
    /\ tpc = "gl_fetch"
    /\ \/ EngineThrows
       \/ \E h \in Pages :
             /\ thtml' = h
             /\ tlog' = Returned(tlog)
             /\ ToolDone(LegislationResult(h))
             /\ UNCHANGED << treq, tvpath, turl >>
    /\ ToolFrame

\* handleResolveCitation: finalUrl = await resolveUrl(searchUrl)
handleResolveCitation ==
    /\ tpc = "rc_resolve"
    /\ \/ EngineThrows
       \/ \E u \in FinalUrls :
             /\ turl' = u
             /\ tlog' = Returned(tlog)
             /\ ToolDone(CitationResult(u))
             /\ UNCHANGED << treq, tvpath, thtml >>
    /\ ToolFrame

\* handleGetContext: html = await fetchPage(url); extractContext(html)
handleGetContext ==
    /\ tpc = "gc_fetch"
    /\ \/ EngineThrows
       \/ \E h \in Pages :
             /\ thtml' = h
             /\ tlog' = Returned(tlog)
             /\ ToolDone(ContextResult(h))
             /\ UNCHANGED << treq, tvpath, turl >>
    /\ ToolFrame

\* handleGetSuggestions: jsonStr = await fetchPage(url); body text; JSON.parse
handleGetSuggestions ==
    /\ tpc = "gs_fetch"
    /\ \/ EngineThrows
       \/ \E h \in Pages :
             /\ thtml' = h
             /\ tlog' = Returned(tlog)
             /\ ToolDone(SuggestionsResult(h))
             /\ UNCHANGED << treq, tvpath, turl >>
    /\ ToolFrame

\* handleGetReferencedDocuments: html = await fetchPage(printUrl); links
handleGetReferencedDocuments ==
    /\ tpc = "gr_fetch"
    /\ \/ EngineThrows
       \/ \E h \in Pages :
             /\ thtml' = h
             /\ tlog' = Returned(tlog)
             /\ ToolDone(RefsResult(h))
             /\ UNCHANGED << treq, tvpath, turl >>
    /\ ToolFrame

\* the client has the result; the next request can come
toolReturned ==
    /\ tpc = "done"
    /\ treq' = NoReq /\ tpc' = "idle" /\ tvpath' = "undefined" /\ turl' = NoUrl
    /\ thtml' = BlankPage /\ tlog' = << >> /\ tres' = NoToolRes
    /\ ToolFrame

\* Tool calls answered by handleBeckToolCall, the engine's answers being any
\* page, final URL or rejection.
NextTools ==
    \/ \E name \in BeckToolNames, args \in ToolArgs : handleBeckToolCall(name, args)
    \/ handleSearch
    \/ handleGetDocument_resolved
    \/ handleGetDocument_fetched
    \/ handleGetLegislation_resolved
    \/ handleGetLegislation_fetched
    \/ handleResolveCitation
    \/ handleGetContext
    \/ handleGetSuggestions
    \/ handleGetReferencedDocuments
    \/ toolReturned

SpecTools == InitConc /\ [][NextTools]_vars

\* The same tool calls in every credential configuration.
InitCompat ==
    /\ Init
    /\ file = [kind |-> "absent", auth |-> NoCookie]

SpecCompat == InitCompat /\ [][NextTools]_vars

\* ------------------------------- the call-tool handler before the refactor

\* isBeckConfigured(): !!(BECK_USERNAME && BECK_PASSWORD)
isBeckConfigured == Truthy(username) /\ Truthy(password)

INDEX_DISABLED_TEXT ==
    "Beck Online tools are disabled. Set BECK_USERNAME and BECK_PASSWORD environment variables to enable."

\* catch (error: any): { text: `Error: ${error.message}`, isError: true }
index_catch(m) == [Envelope(TRUE, "Error: ") EXCEPT !.items = << m >>]

\* name === "beck:search", after the fetch
index_search(h, u) ==
    IF u.doc /\ u.vpath \notin {"null", ""}
    THEN [Envelope(FALSE, "hits") EXCEPT
            !.hits = << [title |-> "Direct Hit (Redirected)", type |-> "Unknown",
                         vpath |-> u.vpath, link |-> u] >>]
    ELSE [Envelope(FALSE, "hits") EXCEPT !.hits = ParsedHits(h.hits)]

\* name === "beck:get_document", after the fetch of the print page
index_getDocument(h, v, f) ==
    IF isAccessDenied(h)
    THEN [Envelope(TRUE, "ERROR: Access Denied for vpath") EXCEPT !.vpath = v]
    ELSE IF f = "html"
    THEN [Envelope(FALSE, "html") EXCEPT !.page = h]
    ELSE IF htmlToMarkdown(h).body = ""
    THEN [Envelope(TRUE, "ERROR: Document content empty or access denied") EXCEPT !.vpath = v]
    ELSE [Envelope(FALSE, "markdown") EXCEPT
            !.items = << htmlToMarkdown(h).title, htmlToMarkdown(h).body >>]

\* name === "beck:resolve_citation", after resolveUrl
index_resolveCitation(u) ==
    IF u.doc
    THEN [Envelope(FALSE, "citation") EXCEPT !.vpath = u.vpath, !.url = u]
    ELSE Envelope(TRUE, "Could not resolve citation")

\* name === "beck:get_legislation", after the fetch of the print page
index_getLegislation(h) ==
    IF isAccessDenied(h)
    THEN Envelope(TRUE, "ERROR: Access Denied for")
    ELSE IF htmlToMarkdown(h).body = ""
    THEN Envelope(TRUE, "ERROR: Empty content for")
    ELSE [Envelope(FALSE, "markdown") EXCEPT
            !.items = << htmlToMarkdown(h).title, htmlToMarkdown(h).body >>]

\* name === "beck:get_suggestions", after the fetch
index_getSuggestions(h) ==
    CASE h.json.kind = "values" ->
            [Envelope(FALSE, "suggestions") EXCEPT
                !.items = [i \in 1..Len(h.json.labels) |->
                              IF h.json.labels[i] = "undefined" THEN "null"
                              ELSE h.json.labels[i]]]
      [] h.json.kind = "noValues" -> Envelope(FALSE, "suggestions")
      [] OTHER -> Envelope(TRUE, "Failed to parse suggestions JSON.")

\* the CallToolRequestSchema handler of index.ts for one of the seven tools:
\* the credentials gate, then the tool's branch; log holds the engine calls
\* made and whether each returned, u and h the final URL and page returned
CallToolHandler(name, args, log, u, h) ==
    IF ~isBeckConfigured
    THEN Envelope(TRUE, INDEX_DISABLED_TEXT)
    ELSE IF log # << >> /\ ~log[Len(log)].ok
    THEN index_catch(log[Len(log)].err)
    ELSE CASE name = "beck:search" -> index_search(h, u)
           [] name = "beck:get_document" ->
                 IF args.vpath = "undefined" THEN index_catch("TypeError")
                 ELSE IF args.vpath = "http"
                 THEN index_getDocument(h, IF u.vpath \notin {"null", ""} THEN u.vpath
                                           ELSE args.vpath, args.format)
                 ELSE index_getDocument(h, args.vpath, args.format)
           [] name = "beck:resolve_citation" -> index_resolveCitation(u)
           [] name = "beck:get_legislation" ->
                 IF u.vpath \in {"null", ""}
                 THEN Envelope(TRUE, "Could not resolve legislation.")
                 ELSE index_getLegislation(h)
           [] name = "beck:get_suggestions" -> index_getSuggestions(h)
           [] name = "beck:get_context" -> [Envelope(FALSE, "context") EXCEPT !.page = h]
           [] name = "beck:get_referenced_documents" ->
                 [Envelope(FALSE, "refs") EXCEPT !.page = h]

\* ------------------------------------------- TestOrchestrator (routing)

\* characters of tool and provider names
Chars == {"a", "b", ":"}
RouteNames == SeqsUpTo(Chars, MaxName)
\* provider.name: any string, the empty one and one holding a ':' included
ProviderNames == {<< >>, << "a" >>, << "b" >>, << "a", ":" >>}
RouteArgs == {"A1", "A2"}

\* what a provider's handleToolCall may answer: a result, error-flagged or
\* not, or a rejected promise
ProviderResults == [st : {"returned", "thrown"}, isError : BOOLEAN]

\* an index search that stops at the last occurrence
indexOf_last(str, ch) ==
    IF \E i \in 1..Len(str) : str[i] = ch
    THEN (CHOOSE i \in 1..Len(str) :
             str[i] = ch /\ \A j \in (i + 1)..Len(str) : str[j] # ch) - 1
    ELSE -1

\* String.prototype.indexOf: 0-based index of the first occurrence, or -1
indexOf(str, ch) ==
    IF \E i \in 1..Len(str) : str[i] = ch
    THEN (CHOOSE i \in 1..Len(str) :
             str[i] = ch /\ \A j \in 1..(i - 1) : str[j] # ch) - 1
    ELSE -1

\* String.prototype.substring(from, to), 0-based, to exclusive
substring(str, from, to) == SubSeq(str, from + 1, to)

RouteFrame ==
    UNCHANGED << engineVars, worldVars, envVars, callVars, sigVars, histVars, toolVars,
                 convVars >>

\* content: [{ type: 'text', text: `Unknown tool: ${toolName}` }], isError: true
UnknownTool(toolName, args) ==
    [name |-> toolName, args |-> args, invoked |-> {}, st |-> "returned",
     isError |-> TRUE, text |-> [lead |-> "Unknown tool: ", toolName |-> toolName]]

\* this.providers.set(provider.name, provider); await provider.initialize?.()
registerProvider(n) ==
    /\ sdpc = "idle" /\ Len(regs) < MaxRegs
    /\ providers' = providers \cup {n}
    /\ regs' = Append(regs, n)
    /\ UNCHANGED << routed, sdpc, sdpos, shut >>
    /\ RouteFrame

\* TestOrchestrator.handleToolCall(toolName, args)
orchestrator_handleToolCall(toolName, args) ==
    /\ routed.st = "none"
    /\ LET colonIndex == indexOf(toolName, ":") IN
       IF colonIndex = -1
       THEN routed' = UnknownTool(toolName, args)
       ELSE LET prefix == substring(toolName, 0, colonIndex) IN
            IF prefix \notin providers
            THEN routed' = UnknownTool(toolName, args)
            ELSE \E r \in ProviderResults :
                    routed' = [name |-> toolName, args |-> args,
                               invoked |-> {[provider |-> prefix, toolName |-> toolName,
                                             args |-> args]},
                               st |-> r.st, isError |-> r.isError,
                               text |-> [lead |-> "Handled ", toolName |-> toolName]]
    /\ UNCHANGED << providers, regs, sdpc, sdpos, shut >>
    /\ RouteFrame

\* the caller received the result; next call
routeReturned ==
    /\ routed.st # "none"
    /\ routed' = NoRouted
    /\ UNCHANGED << providers, regs, sdpc, sdpos, shut >>
    /\ RouteFrame

NextRoute ==
    \/ \E n \in ProviderNames : registerProvider(n)
    \/ \E toolName \in RouteNames, args \in RouteArgs :
          orchestrator_handleToolCall(toolName, args)
    \/ routeReturned

SpecRoute == InitConc /\ [][NextRoute]_vars

\* ----------------------------------- TestOrchestrator (shutdown lifecycle)

\* the object the map holds under name n: Map.set replaces an earlier one
MapValue(r, n) == CHOOSE i \in 1..Len(r) : r[i] = n /\ \A j \in (i + 1)..Len(r) : r[j] # n

\* this.providers.values(): one object per key, keys in insertion order
RECURSIVE MapValues(_, _)
MapValues(r, i) ==
    IF i > Len(r) THEN << >>
    ELSE IF \A j \in 1..(i - 1) : r[j] # r[i]
         THEN << MapValue(r, r[i]) >> \o MapValues(r, i + 1)
         ELSE MapValues(r, i + 1)

\* shutdownAllProviders(): for (const provider of this.providers.values())
shutdownAllProviders ==
    /\ sdpc = "idle"
    /\ IF MapValues(regs, 1) = << >>
       THEN sdpc' = "done" /\ UNCHANGED sdpos
       ELSE sdpc' = "running" /\ sdpos' = 1
    /\ UNCHANGED << providers, routed, regs, shut >>
    /\ RouteFrame

\* await provider.shutdown(): it resolves and the loop goes on, or it
\* rejects and shutdownAllProviders rejects with it
provider_shutdown(ok) ==
    /\ sdpc = "running"
    /\ LET o == MapValues(regs, 1)[sdpos] IN
          shut' = [shut EXCEPT ![o] = @ + 1]
    /\ IF ~ok
       THEN sdpc' = "thrown" /\ UNCHANGED sdpos
       ELSE IF sdpos = Len(MapValues(regs, 1))
       THEN sdpc' = "done" /\ UNCHANGED sdpos
       ELSE sdpos' = sdpos + 1 /\ UNCHANGED sdpc
    /\ UNCHANGED << providers, routed, regs >>
    /\ RouteFrame

NextLifecycle ==
    \/ \E n \in ProviderNames : registerProvider(n)
    \/ shutdownAllProviders
    \/ \E ok \in BOOLEAN : provider_shutdown(ok)

SpecLifecycle == InitConc /\ [][NextLifecycle]_vars

\* ------------------------------------------------------------- claims

\* error messages of the login handshake that report an authentication failure
AuthErrors == {"Login failed: Stuck at", "Login failed: Auth cookie not found after redirect."}
ConfigError == "BECK_USERNAME and BECK_PASSWORD environment variables must be set."

Failed(r) == r.st \in {"error", "rejected"}
CredMissing == username \in {"unset", ""} \/ password \in {"unset", ""}

\* C1: every content navigation (the goto of fetchPage / resolveUrl) is issued
\* while the session has been confirmed in this process by a liveness check
\* or a login handshake; a session only restored from the cookie file is not
\* navigated with.
C1_NavigatesOnlyWhenConfirmed ==
    [][\A p \in Callers : (pc[p] = "fp_nav" /\ pc'[p] = "fp_goto") => verified]_vars

\* C2: at most one automation browser is launched and live at any time.
C2_AtMostOneBrowser == Cardinality(live) <= 1

\* C3: every successful call read the page (content, current URL) as its own
\* navigation left it.
C3_ReadsOwnNavigation ==
    \A p \in Callers : (pc[p] = "done" /\ res[p].st = "ok") => res[p].own

\* C4: a session marked authenticated holds the auth cookie, unexpired.
C4_AuthenticatedHasCookie ==
    isAuthenticated => (page # 0 /\ JarAuth(page).name = AUTH_COOKIE)

\* C5: once credentials are submitted, the login succeeds (authenticated,
\* cookies persisted) exactly when the page is back on the origin and the auth
\* cookie is in the jar; otherwise it fails with an authentication error and
\* the session is not marked authenticated.
AfterSubmitPcs == {"lg_waitNav", "lg_waitNav2", "lg_cookies"}
LoginEnds(p) == pc[p] \in AfterSubmitPcs /\ pc'[p] \notin AfterSubmitPcs
LoginThrew(p) == pc'[p] = "done" /\ Failed(res'[p])
C5_LoginOutcome ==
    [][\A p \in Callers : LoginEnds(p) =>
          /\ ~LoginThrew(p) <=>
                (tgt[p] \in live' /\ IncludesOrigin(pageUrl'[tgt[p]])
                 /\ jar'[tgt[p]].name = AUTH_COOKIE /\ ~Expired(jar'[tgt[p]], now'))
          /\ ~LoginThrew(p) =>
                (isAuthenticated' /\ file' = [kind |-> "cookies", auth |-> jar'[tgt[p]]])
          /\ LoginThrew(p) => (res'[p].err \in AuthErrors /\ ~isAuthenticated')]_vars

\* C6: a failed login handshake fails the fetch that ran it, without a second
\* handshake in that call, and leaves the engine unauthenticated (so that the
\* next fetch runs the handshake from its first step).
HandshakePcs == {"lg_gotoLogin", "lg_submit", "lg_waitNav", "lg_waitNav2",
                 "lg_cookies", "lg_directCookies"}
C6_FailedLoginLeavesUnauthenticated ==
    [][\A p \in Callers :
          (/\ op[p] \in {"fetchPage", "resolveUrl"}
           /\ pc[p] \in HandshakePcs /\ pc'[p] \notin HandshakePcs /\ LoginThrew(p))
             => ~isAuthenticated']_vars

\* C7: a login attempt that finds the identity or the secret unset or empty
\* fails with the configuration error, which is no authentication error; it
\* issues no navigation to the login-initiation endpoint, leaves the page
\* where it is and does not mark the session authenticated.
C7_MissingCredentialsIsConfigError ==
    [][\A p \in Callers :
          (pc[p] = "lg_creds" /\ CredMissing /\ pc'[p] # "lg_creds") =>
             /\ pc'[p] = "done" /\ Failed(res'[p])
             /\ res'[p].err = ConfigError /\ res'[p].err \notin AuthErrors
             /\ pageUrl' = pageUrl /\ pageNavBy' = pageNavBy
             /\ ~isAuthenticated']_vars

\* a login attempt has failed with the configuration error
C7_Witness ==
    \E p \in Callers : CredMissing /\ pc[p] = "done" /\ res[p].err = ConfigError

\* C8: with a credential unset or empty, getTools() is empty and a tool call,
\* whatever the tool name, ends with the error-flagged disabled result and
\* never enters the fetch engine; with both set, getTools() lists all tools.
C8_DisabledWithoutCredentials ==
    /\ CredMissing =>
          /\ getTools = << >>
          /\ \A p \in Callers : entry[p] \in ToolNames =>
                /\ pc[p] \in {"pv_handle", "done"}
                /\ pc[p] = "done" =>
                      res[p] = [st |-> "error", err |-> DISABLED_TEXT, own |-> TRUE]
    /\ ~CredMissing => (getTools = beckToolDefinitions /\ Len(getTools) = 7)

\* a tool call has been answered with the disabled result
C8_Witness ==
    \E p \in Callers :
        /\ CredMissing /\ entry[p] \in ToolNames
        /\ pc[p] = "done" /\ res[p].err = DISABLED_TEXT

\* C9: close() leaves browser, page, authenticated flag and cached auth cookie
\* cleared and the browser terminated; close() without a browser changes
\* nothing and does not fail.
C9_CloseClearsState ==
    [][\A p \in Callers :
          /\ (pc[p] = "cl_close" /\ pc'[p] = "done") =>
                /\ browser' = 0 /\ page' = 0 /\ ~isAuthenticated'
                /\ authCookie' = NoCookie
                /\ tgt[p] \notin live'
          /\ (pc[p] = "cl_start" /\ browser = 0 /\ pc'[p] # "cl_start") =>
                /\ pc'[p] = "done" /\ res'[p].st = "ok"
                /\ UNCHANGED << engineVars, worldVars >>]_vars

\* C10: the shutdown triggers together issue at most one termination of a
\* browser.
C10_TerminatedOnce ==
    \A b \in BrowserIds : Cardinality({s \in Triggers : sigtgt[s] = b}) <= 1

\* a call of the given tool has ended and every engine call it made returned
Answered(tool) ==
    /\ tpc = "done" /\ treq.tool = tool
    /\ tlog # << >> /\ \A i \in 1..Len(tlog) : tlog[i].ok

\* C11: handleBeckToolCall, for every tool name and argument record, ends by
\* returning an envelope with a non-empty text; an exception raised in a
\* handler or in the engine ends as an error-flagged envelope carrying the
\* exception's message, never as a throw.
C11_NeverThrows ==
    tpc = "done" =>
        /\ tres.st = "returned"
        /\ tres.kind # ""
        /\ tres.kind = "Error: " => (tres.isError /\ Len(tres.items) = 1)
        /\ treq.tool \notin {beckToolDefinitions[i] : i \in 1..Len(beckToolDefinitions)}
              => tres.isError

\* an engine rejection during get_legislation's fetch came back as an error envelope
C11_Witness ==
    /\ tpc = "done" /\ treq.tool = "beck:get_legislation" /\ Len(tlog) = 2
    /\ tres.isError /\ tres.items = << "Login failed: Stuck at" >>

\* C12 (as stated): a get_document whose fetched page contains "kann nicht
\* angezeigt werden" ends error-flagged with the access-denied message, in
\* either format.
C12_ShortPhraseIsDenied ==
    (/\ Answered("beck:get_document")
     /\ Includes(toLowerCase(thtml.text), << "kann nicht angezeigt werden" >>))
        => (tres.isError /\ tres.kind = "ERROR: Access Denied for vpath")

\* C12 (amended): a get_document whose fetched page contains, compared
\* case-insensitively, "dokument kann nicht angezeigt werden" ends
\* error-flagged with the access-denied message in either format, and a
\* page returned as html is never one the converter classifies as denied.
C12_DenialPhraseIsDenied ==
    /\ (/\ Answered("beck:get_document")
        /\ Includes(toLowerCase(thtml.text),
                    << "dokument", "kann nicht angezeigt werden" >>))
          => (tres.isError /\ tres.kind = "ERROR: Access Denied for vpath")
    /\ (Answered("beck:get_document") /\ tres.kind = "html")
          => \A ph \in DenialPhrases : ~Includes(toLowerCase(tres.page.text), ph)

\* a denial page was fetched with html format and answered as access denied
C12_Witness ==
    /\ Answered("beck:get_document") /\ treq.args.format = "html"
    /\ thtml.text = << "Dokument", "kann nicht angezeigt werden" >>
    /\ tres.isError

\* C13: get_document with markdown output: a page not classified as denied
\* whose body converts to nothing ends with the empty-content error, whose
\* message is not the access-denied one; a page classified as denied ends
\* with the access-denied error whatever its body converts to.
C13_EmptyIsNotDenied ==
    (Answered("beck:get_document") /\ treq.args.format # "html") =>
        /\ (~isAccessDenied(thtml) /\ thtml.content \in {"absent", "blank"}) =>
              /\ tres.isError
              /\ tres.kind = "ERROR: Document content empty or access denied"
              /\ tres.kind # "ERROR: Access Denied for vpath"
        /\ isAccessDenied(thtml) => tres.kind = "ERROR: Access Denied for vpath"

\* a denial page without any content container was answered as access denied
C13_Witness ==
    /\ Answered("beck:get_document") /\ treq.args.format = "markdown"
    /\ isAccessDenied(thtml) /\ thtml.content = "absent"
    /\ tres.kind = "ERROR: Access Denied for vpath"

\* C14: a search whose final URL is a document navigation with identifier X
\* answers with exactly one hit: vpath X, title "Direct Hit (Redirected)",
\* link the final URL; whatever hit list the page holds is not in the result.
C14_DirectHit ==
    (Answered("beck:search") /\ turl.doc /\ turl.vpath \in Vpaths) =>
        /\ ~tres.isError
        /\ Len(tres.hits) = 1
        /\ tres.hits[1].vpath = turl.vpath
        /\ tres.hits[1].title = "Direct Hit (Redirected)"
        /\ tres.hits[1].link = turl

\* a direct hit was answered although the page lists a hit of its own
C14_Witness ==
    /\ Answered("beck:search") /\ turl = [doc |-> TRUE, vpath |-> "V2"]
    /\ thtml.hits = << [title |-> "A", vpath |-> "V1"] >>
    /\ Len(tres.hits) = 1

\* C15: resolve_citation answers without error only when the final URL is a
\* document navigation with a non-empty identifier, and then names that
\* identifier; otherwise it answers with the 'could not resolve' error.
C15_ResolvedOnlyWithIdentifier ==
    Answered("beck:resolve_citation") =>
        IF turl.doc /\ turl.vpath \in Vpaths
        THEN ~tres.isError /\ tres.vpath = turl.vpath
        ELSE tres.isError /\ tres.kind = "Could not resolve citation"

\* C16: get_suggestions answers a body that parses to an object with a
\* 'values' array by the list of its labels, without error; a body that is
\* not JSON by the 'Failed to parse' error, returned and not thrown.
C16_Suggestions ==
    Answered("beck:get_suggestions") =>
        /\ thtml.json.kind = "values" =>
              /\ ~tres.isError
              /\ Len(tres.items) = Len(thtml.json.labels)
              /\ \A i \in 1..Len(tres.items) :
                    thtml.json.labels[i] # "undefined" => tres.items[i] = thtml.json.labels[i]
        /\ thtml.json.kind = "notJson" =>
              /\ tres.st = "returned" /\ tres.isError
              /\ tres.kind = "Failed to parse suggestions JSON."

\* body {"values":[{"label":"Foo"}]} was answered by ["Foo"]
C16_Witness ==
    /\ Answered("beck:get_suggestions")
    /\ thtml.json = [kind |-> "values", labels |-> << "Foo" >>]
    /\ tres.items = << "Foo" >>

\* the outcome of a document conversion: denied, empty, success
OutcomeClass(r) ==
    CASE r.kind \in {"ERROR: Access Denied for vpath", "ERROR: Access Denied for"} -> "denied"
      [] r.kind \in {"ERROR: Document content empty or access denied",
                     "ERROR: Empty content for"} -> "empty"
      [] r.kind = "markdown" -> "success"
      [] OTHER -> "other"

\* C17: get_legislation resolves first; a final URL without identifier ends
\* with the unresolved error and no fetch; with identifier V it fetches the
\* print rendering of V and ends in the outcome class, and on success with
\* the text, that get_document gives for vpath V, markdown, on that page.
C17_LegislationAsDocument ==
    Answered("beck:get_legislation") =>
        /\ tlog[1].m = "resolveUrl" /\ tlog[1].url = ReqUrl("Bcid", "null")
        /\ IF turl.vpath \notin Vpaths
           THEN /\ Len(tlog) = 1
                /\ tres.isError /\ tres.kind = "Could not resolve legislation."
           ELSE /\ Len(tlog) = 2
                /\ tlog[2].m = "fetchPage" /\ tlog[2].url = ReqUrl("Print", turl.vpath)
                /\ OutcomeClass(tres) = OutcomeClass(DocumentResult(thtml, turl.vpath, "markdown"))
                /\ OutcomeClass(tres) # "other"
                /\ tres.isError = DocumentResult(thtml, turl.vpath, "markdown").isError
                /\ ~tres.isError =>
                      tres.items = DocumentResult(thtml, turl.vpath, "markdown").items

\* a law was resolved to V1, its page fetched and converted
C17_Witness ==
    /\ Answered("beck:get_legislation") /\ turl.vpath = "V1"
    /\ tres.kind = "markdown" /\ tres.items = << "T1", "B1" >>

\* the cookie file parses and holds the auth cookie, whose expiry is unset
\* (0), session-only (-1) or has not passed
FileHoldsValidSession ==
    /\ file.kind = "cookies" /\ file.auth.name = AUTH_COOKIE
    /\ (file.auth.expires \in {0, -1} \/ file.auth.expires >= now)

\* C18: loadSession, run on a live page, goes on to restore the session
\* (the file's cookies set on the page, its auth cookie kept, the engine
\* marked authenticated) exactly when the cookie file exists, parses and
\* holds the auth cookie with an expiry that is unset, session-only or has
\* not passed; otherwise, a missing or unreadable file included, it returns
\* without raising and leaves the authentication state as it was.
C18_LoadSession ==
    [][\A p \in Callers :
          /\ (pc[p] = "in_ua" /\ pc'[p] # "in_ua" /\ tgt[p] \in live) =>
                /\ pc'[p] = "ls_setCookie" <=> FileHoldsValidSession
                /\ pc'[p] = "ls_setCookie" => loc'[p] = file.auth
                /\ ~(pc'[p] = "done" /\ Failed(res'[p]))
                /\ UNCHANGED << authCookie, isAuthenticated >>
          /\ (pc[p] = "ls_setCookie" /\ pc'[p] # "ls_setCookie") =>
                /\ ~(pc'[p] = "done" /\ Failed(res'[p]))
                /\ IF tgt[p] \in live
                   THEN /\ isAuthenticated' /\ authCookie' = loc[p]
                        /\ jar'[tgt[p]] = loc[p]
                   ELSE UNCHANGED << authCookie, isAuthenticated >>]_vars

\* a session was restored from the file, without any login having succeeded
C18_Witness ==
    /\ isAuthenticated /\ ~verified
    /\ FileHoldsValidSession /\ authCookie = file.auth
    /\ \E p \in Callers : pc[p] # "ls_setCookie" /\ entry[p] # "none"

\* a file with a cookie that has expired was read and no session restored
C18_WitnessExpired ==
    /\ file.kind = "cookies" /\ file.auth.name = AUTH_COOKIE /\ Expired(file.auth, now)
    /\ ~isAuthenticated /\ browser # 0 /\ page # 0
    /\ \E p \in Callers : stack[p] # << >> /\ pc[p] \notin {"in_ua", "in_newPage", "ls_setCookie"}

SavePcs == {"lg_cookies", "lg_directCookies"}

\* C19: when login reaches saveSession and the cookie file is left as it was
\* (the write failed), the login, and the fetch it belongs to, goes on
\* without an error, and the authentication state is what the login found:
\* authenticated with the jar's auth cookie after a handshake, untouched on
\* the direct hit.
C19_SaveFailureSwallowed ==
    [][\A p \in Callers :
          (/\ pc[p] \in SavePcs /\ pc'[p] \notin SavePcs
           /\ tgt[p] \in live /\ file' = file
           /\ pc[p] = "lg_cookies" => JarAuth(tgt[p]).name = AUTH_COOKIE) =>
                /\ ~(pc'[p] = "done" /\ Failed(res'[p]))
                /\ IF pc[p] = "lg_cookies"
                   THEN isAuthenticated' /\ authCookie' = JarAuth(tgt[p])
                   ELSE UNCHANGED << authCookie, isAuthenticated >>]_vars

\* a login has succeeded and ended without error while no cookie file exists
C19_Witness ==
    /\ isAuthenticated /\ verified /\ authCookie.name = AUTH_COOKIE
    /\ file.kind = "absent"
    /\ \E p \in Callers : pc[p] = "done" /\ entry[p] = "login" /\ res[p].st = "ok"

\* the name holds a ':'
HasColon(n) == \E i \in 1..Len(n) : n[i] = ":"

\* the text of the name before its first ':'
BeforeFirstColon(n) ==
    LET i == CHOOSE k \in 1..Len(n) : n[k] = ":" /\ \A j \in 1..(k - 1) : n[j] # ":"
    IN  [j \in 1..(i - 1) |-> n[j]]

\* C20: a call handleToolCall(name, args) of the orchestrator invokes, when
\* name holds a ':' and a provider is registered under the text before the
\* first ':', that provider once with name and args as given and no other
\* provider; otherwise it invokes no provider and returns an error-flagged
\* result whose message contains name.
C20_RoutesByPrefix ==
    [][(routed' # routed /\ routed'.st # "none") =>
          LET n == routed'.name IN
          IF HasColon(n) /\ BeforeFirstColon(n) \in providers
          THEN routed'.invoked = {[provider |-> BeforeFirstColon(n), toolName |-> n,
                                   args |-> routed'.args]}
          ELSE /\ routed'.invoked = {}
               /\ routed'.st = "returned" /\ routed'.isError
               /\ routed'.text.toolName = n]_vars

\* 'a::' went to provider 'a' while provider 'b' is registered too
C20_Witness ==
    /\ providers = {<< "a" >>, << "b" >>}
    /\ routed.name = << "a", ":", ":" >>
    /\ routed.invoked = {[provider |-> << "a" >>, toolName |-> routed.name,
                          args |-> routed.args]}

\* C21: once a call of shutdownAllProviders has ended, shutdown() has been
\* called exactly once on every provider object that was registered.
C21_ShutdownOncePerProvider ==
    sdpc \in {"done", "thrown"} => \A i \in 1..Len(regs) : shut[i] = 1

\* with providers of pairwise distinct names whose shutdown() all resolve,
\* the ended call has shut down each of them once
C21_DistinctNamesAllResolve ==
    (/\ sdpc = "done"
     /\ \A i, j \in 1..Len(regs) : regs[i] = regs[j] => i = j) =>
        \A i \in 1..Len(regs) : shut[i] = 1

\* no provider's shutdown() is ever called twice
C21_AtMostOnce == \A i \in 1..MaxRegs : shut[i] <= 1

SevenTools == {beckToolDefinitions[i] : i \in 1..Len(beckToolDefinitions)}

\* C22: for each of the seven tools, the envelope handleBeckToolCall
\* returns is the one the call-tool handler of before the refactor returns
\* for the same arguments and the same answers of the engine.
C22_SameAsMonolith ==
    (tpc = "done" /\ treq.tool \in SevenTools) =>
        tres = CallToolHandler(treq.tool, treq.args, tlog, turl, thtml)

\* with both credentials set the two envelopes are the same
C22_SameWhenConfigured ==
    (tpc = "done" /\ treq.tool \in SevenTools /\ isBeckConfigured) =>
        tres = CallToolHandler(treq.tool, treq.args, tlog, turl, thtml)

\* spellings that differ in the case of their letters only
CaseVariants ==
    {{"Dokument", "dokument"},
     {"kann nicht angezeigt werden", "KANN NICHT ANGEZEIGT WERDEN"},
     {"Nicht über die notwendigen Rechte verfügen",
      "nicht über die notwendigen rechte verfügen"},
     {"keine berechtigung zum aufruf", "Keine Berechtigung zum Aufruf"}}

EqualIgnoringCase(a, b) == a = b \/ \E c \in CaseVariants : a \in c /\ b \in c

\* the text holds one of the three phrases, in whatever case it is written
HoldsDenialPhrase(t) ==
    \E ph \in DenialPhrases : \E i \in 0..(Len(t) - Len(ph)) :
        \A j \in 1..Len(ph) : EqualIgnoringCase(t[i + j], ph[j])

\* C23: isAccessDenied is true of a page exactly when its text holds, in
\* whatever case, one of the three denial phrases; get_document reports
\* access denial for exactly these pages.
C23_DeniedIffPhrase ==
    /\ isAccessDenied(thtml) <=> HoldsDenialPhrase(thtml.text)
    /\ Answered("beck:get_document") =>
          (tres.kind = "ERROR: Access Denied for vpath" <=> HoldsDenialPhrase(thtml.text))

\* a page spelling a phrase in capitals was classified as denied
C23_Witness ==
    /\ Answered("beck:get_document")
    /\ thtml.text = << "Dokument", "KANN NICHT ANGEZEIGT WERDEN" >>
    /\ tres.kind = "ERROR: Access Denied for vpath"

\* a page holding none of the phrases was not classified as denied
C23_WitnessOrdinary ==
    /\ Answered("beck:get_document")
    /\ thtml.text = << "Text", "kann nicht angezeigt werden" >>
    /\ tres.kind = "markdown"

\* three newlines in a row at position i
ThreeNewlines(b) ==
    \E i \in 1..(Len(b) - 2) : b[i] = NL /\ b[i + 1] = NL /\ b[i + 2] = NL

\* C24: the body htmlToMarkdown returns never holds more than two
\* newlines in a row.
C24_AtMostTwoNewlines == ~ThreeNewlines(body)

\* when turndown's text holds no '[](null)' the body holds no three newlines
C24_WithoutArtifact ==
    (\A i \in 1..Len(turned) : turned[i] # ARTIFACT) => ~ThreeNewlines(body)

\* positions of the liveness check and of the handshake inside login()
VerifyPcs == {"lg_verifyGoto", "lg_verifyCookies"}
HandshakeStart == "lg_creds"

\* C25: login(), entered with the session flagged authenticated, first
\* navigates to the landing page and then reads the cookies; with the auth
\* cookie present it returns without starting the handshake and the flag
\* stays; with the cookie absent, or the navigation or the cookie read
\* failing, it clears the flag and goes on to the handshake.
C25_LivenessCheckFirst ==
    [][\A p \in Callers :
          /\ (pc[p] = "lg_afterInit" /\ pc'[p] # "lg_afterInit"
               /\ page # 0 /\ isAuthenticated) =>
                /\ pc'[p] = "lg_verifyGoto" /\ tgt'[p] = page
                /\ UNCHANGED << isAuthenticated, pageUrl >>
          /\ (pc[p] = "lg_verifyGoto" /\ pc'[p] # "lg_verifyGoto") =>
                \/ pc'[p] = "lg_verifyCookies" /\ UNCHANGED isAuthenticated
                \/ pc'[p] = HandshakeStart /\ ~isAuthenticated'
          /\ (pc[p] = "lg_verifyCookies" /\ pc'[p] # "lg_verifyCookies") =>
                IF tgt[p] \in live /\ JarAuth(tgt[p]).name = AUTH_COOKIE
                THEN /\ UNCHANGED isAuthenticated
                     /\ pc'[p] = IF stack[p] = << >> THEN "done" ELSE Head(stack[p])
                     /\ ~Failed(res'[p])
                ELSE pc'[p] = HandshakeStart /\ ~isAuthenticated'
          /\ (pc'[p] = HandshakeStart /\ pc[p] # HandshakeStart) =>
                ~isAuthenticated']_vars

\* login() ended well on a restored session although no credentials are
\* set: the liveness check alone answered it
C25_Witness ==
    /\ CredMissing /\ isAuthenticated /\ verified
    /\ \E p \in Callers : pc[p] = "done" /\ entry[p] = "login" /\ res[p].st = "ok"

\* the liveness check found no cookie and the handshake was started
C25_WitnessStale ==
    /\ ~isAuthenticated /\ file.kind = "cookies" /\ file.auth.name = AUTH_COOKIE
    /\ \E p \in Callers : pc[p] = "lg_gotoLogin" /\ entry[p] = "login"
           /\ pageNavBy[tgt[p]] = p

\* the navigation to the login-initiation endpoint arrived somewhere
ArrivedFromLoginStart(p) ==
    /\ pc[p] = "lg_gotoLogin" /\ pc'[p] # "lg_gotoLogin"
    /\ tgt[p] \in live /\ page = tgt[p]
    /\ ~(pc'[p] = "done" /\ res'[p].err = "navigation failed")

\* login() returns to its caller without an error
LoginReturns(p) ==
    /\ pc'[p] = IF stack[p] = << >> THEN "done" ELSE Head(stack[p])
    /\ ~Failed(res'[p])

\* C26 (as stated): when the navigation to the login-initiation endpoint
\* arrives on a page that is not the login form, login marks the session
\* authenticated and goes on to save the cookies, submitting nothing; it
\* then returns without error, and the file holds the current cookies unless
\* the write failed, in which case it is as it was.
C26_NoFormMeansAuthenticated ==
    [][\A p \in Callers :
          /\ (ArrivedFromLoginStart(p) /\ ~IncludesLoginForm(pageUrl'[tgt[p]])) =>
                /\ isAuthenticated' /\ pc'[p] = "lg_directCookies"
          /\ (pc[p] = "lg_directCookies" /\ pc'[p] # "lg_directCookies"
               /\ tgt[p] \in live) =>
                /\ LoginReturns(p) /\ isAuthenticated'
                /\ file' \in {[kind |-> "cookies", auth |-> JarAuth(tgt[p])], file}]_vars

\* C26 (amended): when that navigation arrives on a page of the Beck-Online
\* origin that is not the login form, login marks the session authenticated
\* and goes on to save the cookies, submitting nothing; it then returns
\* without error, and the file holds the current cookies unless the write
\* failed, in which case it is as it was.
C26_DirectHitMeansAuthenticated ==
    [][\A p \in Callers :
          /\ (/\ ArrivedFromLoginStart(p)
               /\ ~IncludesLoginForm(pageUrl'[tgt[p]])
               /\ IncludesOrigin(pageUrl'[tgt[p]])) =>
                /\ isAuthenticated' /\ pc'[p] = "lg_directCookies"
          /\ (pc[p] = "lg_directCookies" /\ pc'[p] # "lg_directCookies"
               /\ tgt[p] \in live) =>
                /\ LoginReturns(p) /\ isAuthenticated'
                /\ file' \in {[kind |-> "cookies", auth |-> JarAuth(tgt[p])], file}]_vars

\* login() ended well by a direct hit: nothing was submitted, the cookies
\* are on disk
C26_Witness ==
    /\ isAuthenticated /\ verified
    /\ \E p \in Callers :
          /\ pc[p] = "done" /\ entry[p] = "login" /\ res[p].st = "ok"
          /\ authCookie = NoCookie
    /\ file.kind = "cookies"

\* the two navigation waits of the handshake (page.waitForNavigation)
WaitPcs == {"lg_waitNav", "lg_waitNav2"}

\* C27: no navigation wait of the login handshake fails the login by
\* expiring; a login that fails at a wait fails with an error decided by the
\* URL and the cookie jar examined after the waits (or because the page is
\* gone), never with the timeout itself.
C27_WaitExpiryTolerated ==
    [][\A p \in Callers :
          (pc[p] \in WaitPcs /\ pc'[p] = "done" /\ Failed(res'[p])) =>
              res'[p].err # "navigation timeout"]_vars

\* what saveSession would write for the cookies page b holds now
CurrentRecord(b) == [kind |-> "cookies", auth |-> JarAuth(b)]

\* C28 (as stated): when fetchPage returns the content of a page, the cookie
\* file holds the cookies the page has at that moment.
C28_FetchRefreshesRecord ==
    [][\A p \in Callers :
          (/\ pc[p] = "fp_content" /\ op[p] = "fetchPage"
           /\ pc'[p] = "done" /\ ~Failed(res'[p])) =>
              file' = CurrentRecord(tgt[p])]_vars

\* C28 (amended): the cookie file is written only by a login reaching its
\* saveSession call; no step of fetchPage outside that login changes it, so
\* after a successful fetchPage it still holds what the last login saved.
C28_OnlyLoginSaves ==
    [][file' # file => \E p \in Callers : pc[p] \in SavePcs /\ pc'[p] # pc[p]]_vars

\* a fetchPage has returned the content of a page whose cookies are not the
\* ones in the file, although a login of this process saved them earlier
C28_Witness ==
    /\ page # 0 /\ page \in live
    /\ file.kind = "cookies" /\ file # CurrentRecord(page)
    /\ \E p \in Callers :
          /\ pc[p] = "done" /\ op[p] = "fetchPage" /\ res[p].st = "ok"

\* get_document was given a full URL and both engine calls returned
UrlDocumentAnswered == Answered("beck:get_document") /\ treq.args.vpath = "http"

\* the error messages of get_document that name the identifier
NamesIdentifier(r) ==
    r.kind \in {"ERROR: Access Denied for vpath",
                "ERROR: Document content empty or access denied"}

\* get_document resolved the given URL with one call, fetched the print
\* rendering of identifier v next, and names v in its error messages
PrintsAndNames(v) ==
    /\ Len(tlog) = 2
    /\ tlog[1].m = "resolveUrl" /\ tlog[1].url = ReqUrl("given", treq.args.vpath)
    /\ tlog[2].m = "fetchPage" /\ tlog[2].url = ReqUrl("Print", v)
    /\ NamesIdentifier(tres) => tres.vpath = v

\* C29 (as stated): get_document given a full URL resolves it with one
\* navigation, then fetches the print rendering of the identifier in the
\* 'vpath' parameter of the final URL, and its messages name that identifier.
C29_PrintsExtractedIdentifier ==
    UrlDocumentAnswered => (turl.vpath \in Vpaths /\ PrintsAndNames(turl.vpath))

\* C29 (amended): as stated when the final URL has a non-empty 'vpath'
\* parameter; when it has none, the print rendering is fetched for the given
\* URL itself and the messages name that URL.
C29_PrintsExtractedOrGiven ==
    UrlDocumentAnswered =>
        PrintsAndNames(IF HasVpath(turl) THEN turl.vpath ELSE treq.args.vpath)

\* a URL was resolved to V1 and the print page of V1 was denied
C29_Witness ==
    /\ UrlDocumentAnswered /\ turl.vpath = "V1"
    /\ tlog[2].url = ReqUrl("Print", "V1")
    /\ tres.kind = "ERROR: Access Denied for vpath" /\ tres.vpath = "V1"

\* a URL was resolved to a URL without identifier and printed as it was given
C29_WitnessFallback ==
    /\ UrlDocumentAnswered /\ ~HasVpath(turl)
    /\ tlog[2].url = ReqUrl("Print", "http")
    /\ NamesIdentifier(tres) /\ tres.vpath = "http"

\* a browser was launched and close() has terminated it
AfterClose == launched > 0 /\ live = {} /\ browser = 0

\* the awaits that are issued on a browser or page handle
HandlePcs == AwaitPcs \ {"in_launch"}

\* C30: once close() has terminated the browser, a fetchPage starts with
\* init(), whose launch yields a browser that was never launched before;
\* init() goes on to restore the session when the cookie file holds a valid
\* one; the content navigation is issued with the session flagged
\* authenticated; and every operation is issued on a handle of a browser
\* that is alive, never on a terminated one.
C30_FreshStartAfterClose ==
    [][\A p \in Callers :
          /\ (AfterClose /\ pc[p] = "fp_start" /\ pc'[p] # "fp_start") =>
                /\ pc'[p] = "in_start" /\ Head(stack'[p]) = "fp_auth"
          /\ (AfterClose /\ pc[p] = "in_start" /\ pc'[p] # "in_start") =>
                pc'[p] = "in_launch"
          /\ (pc[p] = "in_launch" /\ browser' # browser) =>
                /\ browser' \notin 1..launched /\ browser' \in live'
          /\ (pc[p] = "in_ua" /\ pc'[p] # "in_ua" /\ tgt[p] \in live
               /\ FileHoldsValidSession) =>
                /\ pc'[p] = "ls_setCookie" /\ loc'[p] = file.auth
          /\ (pc[p] = "ls_setCookie" /\ pc'[p] # "ls_setCookie" /\ tgt[p] \in live) =>
                isAuthenticated'
          /\ (pc[p] # "fp_goto" /\ pc'[p] = "fp_goto") =>
                isAuthenticated' /\ tgt'[p] = page'
          /\ (pc'[p] # pc[p] /\ pc'[p] \in HandlePcs) => tgt'[p] \in live']_vars

\* after a close, a fetchPage has launched the second browser and returned
\* a page fetched with it
C30_Witness ==
    /\ launched = 2 /\ live = {2} /\ browser = 2 /\ page = 2
    /\ isAuthenticated
    /\ \E p \in Callers :
          /\ pc[p] = "done" /\ entry[p] = "fetchPage" /\ res[p].st = "ok"

\* the same, with the session restored from the cookie file and no login
C30_WitnessRestored ==
    /\ launched = 2 /\ live = {2} /\ page = 2 /\ ~verified
    /\ authCookie = file.auth /\ FileHoldsValidSession
    /\ \E p \in Callers :
          /\ pc[p] = "done" /\ entry[p] = "fetchPage" /\ res[p].st = "ok"

====
